---- MODULE Spec2Model ----
(***************************************************************************)
(* A model of the acquisition-support code of song_retriever.py and of     *)
(* the curation code of remove_artists.py: the hash cache (load, save,     *)
(* append, prune), the dedup index seeded by build_audio_hash_index, the   *)
(* retry loops of spotify_call, download_image and download_audio, and     *)
(* the batch loops that call them.                                         *)
(*                                                                         *)
(* Text that the code parses or formats (the size and modification-time    *)
(* fields of a cache line) is a sequence of one-character strings, so      *)
(* that int(), float() and the f-string formatting are computed and not    *)
(* assumed to be inverse to each other.  A float is kept as its exact      *)
(* decimal value: integer part and fraction digits without trailing zeros. *)
(***************************************************************************)
EXTENDS Integers, Sequences, FiniteSets, TLC

VARIABLES
    files,              \* audio files under the base directory: path -> [content, mtime]
    covers,             \* folders of the base directory that hold a cover.jpg
    cacheFile,          \* .audio_hashes.txt: [exists, lines]
    known_hashes,       \* the running song_retriever's dedup index (a set of digests)
    HASH_CACHE_STATE,   \* song_retriever's module global: [set, entries]
    clock,              \* the file system's time, stamped on files as they are written
    runState,           \* "none" | "running" | "crashed" : the song_retriever process
    registered,         \* history: the paths the running process added to its index
    downloaded,         \* download_songs_from_list's list of the paths it got back
    last                \* what the last operation did and returned

vars ==
    <<files, covers, cacheFile, known_hashes, HASH_CACHE_STATE, clock, runState,
      registered, downloaded, last>>

---------------------------------------------------------------------------
\* Bounds of the model.

\* Downloads stop once the clock has reached MaxClock.
MaxClock == 3
\* unique_base_path is explored up to the suffix " (MaxSuffix)".
MaxSuffix == 2

---------------------------------------------------------------------------
\* Program constants.

AUDIO_EXTS == <<".mp3", ".m4a", ".webm", ".opus">>
DOWNLOAD_ATTEMPTS == 3
IMAGE_DOWNLOAD_ATTEMPTS == 3
SPOTIFY_ATTEMPTS == 3

None == "None"

---------------------------------------------------------------------------
\* Text: decimal digits, int(), float(), and their formatting.

DigitChars == <<"0", "1", "2", "3", "4", "5", "6", "7", "8", "9">>

IsDigit(c) == \E i \in 1..10 : DigitChars[i] = c

DigitVal(c) == (CHOOSE i \in 1..10 : DigitChars[i] = c) - 1

IsDigits(s) == Len(s) > 0 /\ \A i \in 1..Len(s) : IsDigit(s[i])

RECURSIVE DigitsVal(_)
DigitsVal(s) ==
    IF s = <<>> THEN 0
    ELSE 10 * DigitsVal(SubSeq(s, 1, Len(s) - 1)) + DigitVal(s[Len(s)])

\* str(n) of a non-negative int: no sign, no leading zero.
RECURSIVE StrInt(_)
StrInt(n) ==
    IF n < 10 THEN <<DigitChars[n + 1]>>
    ELSE StrInt(n \div 10) \o <<DigitChars[(n % 10) + 1]>>

\* int(text): the texts of the model hold digits, "." and tab only, so the
\* text is an int exactly when it is a non-empty run of digits.
IntOk(s) == IsDigits(s)

IntVal(s) == DigitsVal(s)

DotAt(s) == {i \in 1..Len(s) : s[i] = "."}

RECURSIVE StripZeros(_)
StripZeros(s) ==
    IF s = <<>> THEN s
    ELSE IF s[Len(s)] = "0" THEN StripZeros(SubSeq(s, 1, Len(s) - 1))
    ELSE s

AllDigits(s) == \A i \in 1..Len(s) : IsDigit(s[i])

\* float(text): digits, digits ".", digits "." digits, or "." digits.
FloatOk(s) ==
    \/ IsDigits(s)
    \/ /\ Cardinality(DotAt(s)) = 1
       /\ Len(s) > 1
       /\ LET d == CHOOSE i \in DotAt(s) : TRUE
          IN AllDigits(SubSeq(s, 1, d - 1)) /\ AllDigits(SubSeq(s, d + 1, Len(s)))

FloatVal(s) ==
    IF DotAt(s) = {} THEN [ip |-> DigitsVal(s), fp |-> <<>>]
    ELSE LET d == CHOOSE i \in DotAt(s) : TRUE
         IN [ip |-> DigitsVal(SubSeq(s, 1, d - 1)),
             fp |-> StripZeros(SubSeq(s, d + 1, Len(s)))]

\* A formatting of a float that shows no fraction when it is integral.
StrFloat_trimmed(x) == StrInt(x.ip) \o (IF x.fp = <<>> THEN <<>> ELSE <<".">> \o x.fp)

\* f"{x}" of a float: repr always shows a fraction, ".0" when it is integral.
StrFloat(x) == StrInt(x.ip) \o <<".">> \o (IF x.fp = <<>> THEN <<"0">> ELSE x.fp)

\* The float a whole number of seconds t is.
Seconds(t) == [ip |-> t, fp |-> <<>>]

---------------------------------------------------------------------------
\* Paths.  A relative path is <<folder, name, n, ext>> and stands for
\* folder/name.ext when n = 1 and for "folder/name (n).ext" otherwise.

Dirs == {"", "Album", "Artist"}
Names == {"song"}
Contents == {"A", "B", "C"}

Suffixes == 1..MaxSuffix

ExtSet == {AUDIO_EXTS[i] : i \in 1..Len(AUDIO_EXTS)}

Paths == Dirs \X Names \X Suffixes \X ExtSet

\* Order of the path strings under Python's string comparison: "Album/..."
\* sorts before "Artist/..." and both before "song..." ("A" < "s"); after
\* the name, " (n)" sorts before "." (" " < "."); ".m4a" < ".mp3" < ".opus"
\* < ".webm".  Names holds one name, so names never decide.
DirRank(d) == CASE d = "Album" -> 0 [] d = "Artist" -> 1 [] OTHER -> 2

SuffixRank(n) == IF n = 1 THEN MaxSuffix + 1 ELSE n

ExtRank(e) == CASE e = ".m4a" -> 1 [] e = ".mp3" -> 2 [] e = ".opus" -> 3 [] OTHER -> 4

PathLess(p, q) ==
    \/ DirRank(p[1]) < DirRank(q[1])
    \/ /\ p[1] = q[1]
       /\ \/ SuffixRank(p[3]) < SuffixRank(q[3])
          \/ /\ p[3] = q[3]
             /\ ExtRank(p[4]) < ExtRank(q[4])

\* sorted(keys)
RECURSIVE sorted(_)
sorted(S) ==
    IF S = {} THEN <<>>
    ELSE LET m == CHOOSE x \in S : \A y \in S \ {x} : PathLess(x, y)
         IN <<m>> \o sorted(S \ {m})

---------------------------------------------------------------------------
\* Files.

\* hashlib.sha256 over the bytes: equal contents give equal digests and
\* different contents different ones.
hash_file(content) ==
    CASE content = "A" -> "sha-A" [] content = "B" -> "sha-B" [] OTHER -> "sha-C"

\* st_size: contents "A" and "B" are equally long.
SizeOf(content) == IF content = "C" THEN 12 ELSE 7

stat(fs, p) == [st_size |-> SizeOf(fs[p].content), st_mtime |-> fs[p].mtime]

exists(fs, p) == p \in DOMAIN fs

Put(f, k, v) == [x \in (DOMAIN f) \cup {k} |-> IF x = k THEN v ELSE f[x]]

Drop(f, K) == [x \in (DOMAIN f) \ K |-> f[x]]

EmptyMap == [x \in {} |-> x]

Range(seq) == {seq[i] : i \in 1..Len(seq)}

---------------------------------------------------------------------------
\* The hash cache file.  A line is its sequence of tab-separated fields:
\* <<hash, relative path, size text, time text>> when well formed.

NoFile == [exists |-> FALSE, lines |-> <<>>]

RECURSIVE JoinTabs(_)
JoinTabs(fs) ==
    IF Len(fs) = 1 THEN fs[1] ELSE fs[1] \o <<"\t">> \o JoinTabs(Tail(fs))

\* line.split("\t", 3): at most four parts, the fourth keeping its tabs.
split3(line) ==
    IF Len(line) <= 4 THEN line
    ELSE SubSeq(line, 1, 3) \o <<JoinTabs(SubSeq(line, 4, Len(line)))>>

\* song_retriever.load_hash_cache: the loop over the lines of the file.
RECURSIVE load_lines(_, _)
load_lines(lines, cache) ==
    IF lines = <<>> THEN cache
    ELSE LET parts == split3(Head(lines))
         IN IF Len(parts) # 4 THEN load_lines(Tail(lines), cache)
            ELSE IF ~(IntOk(parts[3]) /\ FloatOk(parts[4]))
                 THEN load_lines(Tail(lines), cache)
            ELSE load_lines(Tail(lines),
                            Put(cache, parts[2],
                                <<parts[1], IntVal(parts[3]), FloatVal(parts[4])>>))

\* A load in which the first record of a path wins: the lines are read
\* from the last to the first.
load_hash_cache_first(f) ==
    IF ~f.exists THEN EmptyMap
    ELSE load_lines([i \in 1..Len(f.lines) |-> f.lines[Len(f.lines) + 1 - i]], EmptyMap)

\* song_retriever.load_hash_cache(cache_path, base_dir)
load_hash_cache(f) == IF ~f.exists THEN EmptyMap ELSE load_lines(f.lines, EmptyMap)

\* The line save_hash_cache and update_hash_cache format for one entry.
cache_line(rel_path, entry) ==
    <<entry[1], rel_path, StrInt(entry[2]), StrFloat(entry[3])>>

\* The order in which save_hash_cache writes the keys.
save_order(cache) == sorted(DOMAIN cache)

\* song_retriever.save_hash_cache(cache_path, cache): the file it leaves.
save_hash_cache(cache) ==
    [exists |-> TRUE,
     lines |-> [i \in 1..Cardinality(DOMAIN cache) |->
                   cache_line(save_order(cache)[i], cache[save_order(cache)[i]])]]

\* remove_artists.load_hash_cache: size and time are kept as text.
RECURSIVE ra_load_lines(_, _)
ra_load_lines(lines, cache) ==
    IF lines = <<>> THEN cache
    ELSE LET parts == split3(Head(lines))
         IN IF Len(parts) # 4 THEN ra_load_lines(Tail(lines), cache)
            ELSE ra_load_lines(Tail(lines),
                               Put(cache, parts[2], <<parts[1], parts[3], parts[4]>>))

ra_load_hash_cache(f) == IF ~f.exists THEN EmptyMap ELSE ra_load_lines(f.lines, EmptyMap)

\* remove_artists.save_hash_cache(cache_path, cache): the file it leaves.
ra_save_hash_cache(cache) ==
    [exists |-> TRUE,
     lines |-> [i \in 1..Cardinality(DOMAIN cache) |->
                   LET k == sorted(DOMAIN cache)[i]
                   IN <<cache[k][1], k, cache[k][2], cache[k][3]>>]]

---------------------------------------------------------------------------
\* song_retriever.build_audio_hash_index(base_dir), for a base_dir that is
\* a directory.  statFail and hashFail are the files on which os.stat and
\* hash_file raise OSError.

\* A walk that skips every file, as a wrong extension test would.
audio_files_none(fs) == {}

\* A walk that keeps every file.
audio_files_all(fs) == DOMAIN fs

\* The walk keeps the files whose name ends with one of AUDIO_EXTS; the
\* cache file itself is no audio file.
audio_files(fs) == {p \in DOMAIN fs : p[4] \in ExtSet}

\* A freshness test that looks at the size only.
is_fresh_by_size(cache, fs, p) ==
    p \in DOMAIN cache /\ cache[p][2] = stat(fs, p).st_size

\* "cached and cached[1] == stat.st_size and cached[2] == stat.st_mtime"
is_fresh(cache, fs, p) ==
    /\ p \in DOMAIN cache
    /\ cache[p][2] = stat(fs, p).st_size
    /\ cache[p][3] = stat(fs, p).st_mtime

build_audio_hash_index(fs, cf, statFail, hashFail) ==
    LET cache == load_hash_cache(cf)
        kept == {p \in audio_files(fs) \ statFail :
                    is_fresh(cache, fs, p) \/ p \notin hashFail}
        new_cache == [p \in kept |->
                        <<IF is_fresh(cache, fs, p) THEN cache[p][1]
                          ELSE hash_file(fs[p].content),
                          stat(fs, p).st_size, stat(fs, p).st_mtime>>]
    IN [hashes |-> {new_cache[p][1] : p \in kept},
        new_cache |-> new_cache,
        hashed |-> {p \in audio_files(fs) \ statFail : ~is_fresh(cache, fs, p)}]

\* set_hash_cache_state(base_dir, cache_path, entries) with a cache path.
set_hash_cache_state(entries) == [set |-> TRUE, entries |-> entries]

NoState == [set |-> FALSE, entries |-> EmptyMap]

---------------------------------------------------------------------------
\* The retry loops.  Each takes the outcomes the remote side gives to the
\* successive attempts and returns what the loop did: the events in order
\* ("call", "log", "sleep"), the outcomes it consumed, whether it got its
\* result, and the exception that left it, if any.

NoRun == [events |-> <<>>, seen |-> <<>>, ok |-> FALSE, raised |-> ""]

Called(r, outcome) == [r EXCEPT !.events = Append(@, "call"), !.seen = Append(@, outcome)]

Logged(r) == [r EXCEPT !.events = Append(@, "log")]

Slept(r) == [r EXCEPT !.events = Append(@, "sleep")]

\* A loop that sleeps after every failure, the last one too.
spotify_sleeps_always(attempt) == TRUE

\* "if attempt < SPOTIFY_ATTEMPTS" before time.sleep
spotify_sleeps(attempt) == attempt < SPOTIFY_ATTEMPTS

\* spotify_call: "for attempt in range(1, SPOTIFY_ATTEMPTS + 1)"; the
\* outcome of func is "result" or "Exception".
RECURSIVE spotify_attempts(_, _, _)
spotify_attempts(outcomes, attempt, r) ==
    IF attempt > SPOTIFY_ATTEMPTS THEN r
    ELSE IF outcomes[attempt] # "Exception"
         THEN [Called(r, outcomes[attempt]) EXCEPT !.ok = TRUE]
    ELSE spotify_attempts(outcomes, attempt + 1,
             IF spotify_sleeps(attempt)
             THEN Slept(Logged(Called(r, outcomes[attempt])))
             ELSE Logged(Called(r, outcomes[attempt])))

spotify_call(outcomes) == spotify_attempts(outcomes, 1, NoRun)

\* "if attempt < IMAGE_DOWNLOAD_ATTEMPTS" before time.sleep
image_sleeps(attempt) == attempt < IMAGE_DOWNLOAD_ATTEMPTS

\* The exceptions download_image catches: "except requests.RequestException".
image_catches(outcome) == outcome = "RequestException"

\* download_image: an attempt gets status 200 and writes the file ("200"),
\* gets another status ("status"), raises requests.RequestException, or
\* gets status 200 and open/write raises OSError.
RECURSIVE image_attempts(_, _, _)
image_attempts(outcomes, attempt, r) ==
    IF attempt > IMAGE_DOWNLOAD_ATTEMPTS THEN r
    ELSE IF outcomes[attempt] = "200"
         THEN [Called(r, outcomes[attempt]) EXCEPT !.ok = TRUE]
    ELSE IF outcomes[attempt] # "status" /\ ~image_catches(outcomes[attempt])
         THEN [Called(r, outcomes[attempt]) EXCEPT !.raised = outcomes[attempt]]
    ELSE image_attempts(outcomes, attempt + 1,
             IF image_sleeps(attempt)
             THEN Slept(Logged(Called(r, outcomes[attempt])))
             ELSE Logged(Called(r, outcomes[attempt])))

\* download_image(url, path): "if not url: return"
download_image(url, outcomes) ==
    IF url = "" THEN NoRun ELSE image_attempts(outcomes, 1, NoRun)

\* A loop that retries at once, without the delay.
audio_sleeps_never(attempt) == FALSE

\* "if attempt < DOWNLOAD_ATTEMPTS" before time.sleep
audio_sleeps(attempt) == attempt < DOWNLOAD_ATTEMPTS

\* The download loop of download_audio: break on success, return None
\* after the last failure.
RECURSIVE audio_attempts(_, _, _)
audio_attempts(outcomes, attempt, r) ==
    IF attempt > DOWNLOAD_ATTEMPTS THEN r
    ELSE IF outcomes[attempt] # "Exception"
         THEN [Called(r, outcomes[attempt]) EXCEPT !.ok = TRUE]
    ELSE audio_attempts(outcomes, attempt + 1,
             IF audio_sleeps(attempt)
             THEN Slept(Logged(Called(r, outcomes[attempt])))
             ELSE Logged(Called(r, outcomes[attempt])))

---------------------------------------------------------------------------
\* Local file operations that raise OSError: which of the calls of one
\* operation fail.  The code catches some of them and not others.

NoFault == [hash |-> FALSE, remove |-> FALSE, stat |-> FALSE, append |-> FALSE]

Faults == [hash : BOOLEAN, remove : BOOLEAN, stat : BOOLEAN, append : BOOLEAN]

\* No call fails, or one of them does.
OneFault ==
    {flt \in Faults : Cardinality({k \in {"hash", "remove", "stat", "append"} : flt[k]}) <= 1}

\* The files of the tree whose os.stat and whose hash_file fail during the
\* scan: none, or all of them at one of the two calls.
FailSets(fs) == {<<{}, {}>>, <<DOMAIN fs, {}>>, <<{}, DOMAIN fs>>}

---------------------------------------------------------------------------
\* unique_base_path, find_downloaded_file, update_hash_cache, download_audio

\* A probe of the first candidate extension only.
any_ext_exists_first(fs, d, nm, n) == exists(fs, <<d, nm, n, AUDIO_EXTS[1]>>)

\* "any(os.path.exists(candidate + ext) for ext in AUDIO_EXTS)"
any_ext_exists(fs, d, nm, n) ==
    \E i \in 1..Len(AUDIO_EXTS) : exists(fs, <<d, nm, n, AUDIO_EXTS[i]>>)

\* An allocator that returns base_path whatever exists.
unique_base_path_taken(fs, d, nm, n) == n

\* unique_base_path(base_path): the suffix number of the base it returns
\* (1 for base_path itself).
RECURSIVE unique_base_path(_, _, _, _)
unique_base_path(fs, d, nm, n) ==
    IF any_ext_exists(fs, d, nm, n) THEN unique_base_path(fs, d, nm, n + 1) ELSE n

\* find_downloaded_file(out_base_path): the first of AUDIO_EXTS that exists.
find_downloaded_file(fs, d, nm, n) ==
    LET hits == {i \in 1..Len(AUDIO_EXTS) : exists(fs, <<d, nm, n, AUDIO_EXTS[i]>>)}
    IN IF hits = {} THEN {}
       ELSE {<<d, nm, n, AUDIO_EXTS[CHOOSE i \in hits : \A j \in hits : i <= j]>>}

\* update_hash_cache(file_path, file_hash)
update_hash_cache(hcs, cf, fs, p, file_hash, flt) ==
    IF ~hcs.set THEN [state |-> hcs, file |-> cf]
    ELSE IF flt.stat THEN [state |-> hcs, file |-> cf]
    ELSE LET entry == <<file_hash, stat(fs, p).st_size, stat(fs, p).st_mtime>>
         IN [state |-> [hcs EXCEPT !.entries = Put(@, p, entry)],
             file |-> IF flt.append THEN cf
                      ELSE [exists |-> TRUE,
                            lines |-> Append(cf.lines, cache_line(p, entry))]]

\* A membership test that never finds the hash.
is_duplicate_never(file_hash, kh) == FALSE

\* "if file_hash in known_hashes"
is_duplicate(file_hash, kh) == file_hash \in kh

\* download_audio(search_query, out_base_path, known_hashes).  produced is
\* what the fetch leaves at the output template when it succeeds: nothing,
\* or one file <<ext, content>>.  The result names the new file system,
\* index, cache state and cache file, and the value returned ({} is None).
download_audio(fs, kh, hcs, cf, d, nm, n, outcomes, produced, now, flt) ==
    LET loop == audio_attempts(outcomes, 1, NoRun)
        fs1 == IF loop.ok /\ produced # {}
               THEN LET f == CHOOSE x \in produced : TRUE
                    IN Put(fs, <<d, nm, n, f[1]>>, [content |-> f[2], mtime |-> Seconds(now)])
               ELSE fs
        found == find_downloaded_file(fs1, d, nm, n)
        same == [files |-> fs1, known_hashes |-> kh, state |-> hcs, file |-> cf,
                 loop |-> loop, ret |-> {}, dup |-> FALSE, wrote |-> FALSE]
    IN IF ~loop.ok THEN same
       ELSE IF found = {} THEN same
       ELSE LET p == CHOOSE x \in found : TRUE
                file_hash == hash_file(fs1[p].content)
                u == update_hash_cache(hcs, cf, fs1, p, file_hash, flt)
            IN IF flt.hash THEN [same EXCEPT !.ret = found]
               ELSE IF is_duplicate(file_hash, kh)
                    THEN [same EXCEPT !.files = IF flt.remove THEN fs1 ELSE Drop(fs1, found),
                                      !.dup = TRUE]
               ELSE [same EXCEPT !.known_hashes = kh \cup {file_hash},
                                 !.state = u.state, !.file = u.file,
                                 !.ret = found,
                                 !.wrote = (u.file # cf)]

---------------------------------------------------------------------------
\* remove_artists.prune_hash_cache(base_dir, dry_run)

\* An existence test of the relative path against the wrong directory.
is_stale_always(fs, rel_path) == TRUE

\* "if not os.path.exists(abs_path)"
is_stale(fs, rel_path) == ~exists(fs, rel_path)

\* A prune that rewrites the cache whatever it removed.
prune_saves_always(removed) == TRUE

\* "if removed: save_hash_cache(cache_path, cache)"
prune_saves(removed) == removed # 0

prune_hash_cache(fs, cf, dry_run) ==
    LET cache == ra_load_hash_cache(cf)
        stale == {p \in DOMAIN cache : is_stale(fs, p)}
        removed == Cardinality(stale)
        unchanged == [ret |-> removed, file |-> cf, wrote |-> FALSE]
    IN IF DOMAIN cache = {} THEN [unchanged EXCEPT !.ret = 0]
       ELSE IF removed # 0 /\ dry_run THEN unchanged
       ELSE IF prune_saves(removed)
            THEN [ret |-> removed, file |-> ra_save_hash_cache(Drop(cache, stale)),
                  wrote |-> TRUE]
       ELSE unchanged

---------------------------------------------------------------------------
\* Inputs of the operations.

\* The extensions the fetch leaves its file with.
FetchExts == {".mp3", ".m4a"}

\* The contents the fetch delivers; content "C" is found only in the
\* library that was there before.
FetchContents == {"A", "B"}

Produced == {{}} \cup {{<<e, c>>} : e \in FetchExts, c \in FetchContents}

\* The outcomes the remote side gives to the attempts of one retry loop of
\* budget n: failures (from retry) up to a last outcome that ends the loop
\* (from final), or n failures.
Outcomes(n, retry, final) ==
    UNION {{pre \o <<t>> : pre \in [1..k -> retry], t \in final} : k \in 0..(n - 1)}
        \cup [1..n -> retry]

\* func returns one of two results, or raises.
CallOutcomes == Outcomes(SPOTIFY_ATTEMPTS, {"Exception"}, {"track", "album"})

FetchOutcomes == Outcomes(DOWNLOAD_ATTEMPTS, {"Exception"}, {"ok"})

RemoteImage == Outcomes(IMAGE_DOWNLOAD_ATTEMPTS, {"status", "RequestException"}, {"200"})

\* With the local failure of an attempt: status 200, then OSError from
\* open() or write().
LocalImage ==
    Outcomes(IMAGE_DOWNLOAD_ATTEMPTS, {"RequestException"}, {"200", "OSError"})

\* The library before the first run: empty, or audio files of pairwise
\* different content that no run has indexed yet.
Old(content) == [content |-> content, mtime |-> Seconds(0)]

InitialLibraries ==
    {EmptyMap,
     [p \in {<<"", "song", 1, ".mp3">>} |-> Old("A")],
     [p \in {<<"", "song", 1, ".mp3">>, <<"Album", "song", 1, ".m4a">>} |->
         IF p[1] = "" THEN Old("A") ELSE Old("B")],
     [p \in {<<"", "song", 1, ".mp3">>, <<"Album", "song", 1, ".m4a">>} |->
         IF p[1] = "" THEN Old("C") ELSE Old("A")]}

\* What a curation run matches: nothing, one file, or every file.
Matches(fs) == {{}, DOMAIN fs} \cup {{p} : p \in DOMAIN fs}

\* What an operation reports in last.
Report(op) ==
    [op |-> op, events |-> <<>>, seen |-> <<>>, ok |-> FALSE, raised |-> "",
     ret |-> {}, dup |-> FALSE, wrote |-> FALSE, hashed |-> {}, hash |-> {},
     before |-> NoFile, target |-> {}, dry |-> FALSE]

---------------------------------------------------------------------------
\* The state machine.

Init ==
    /\ files \in InitialLibraries
    /\ covers = {}
    /\ cacheFile = NoFile
    /\ known_hashes = {}
    /\ HASH_CACHE_STATE = NoState
    /\ clock = 1
    /\ runState = "none"
    /\ registered = {}
    /\ downloaded = <<>>
    /\ last = Report("init")

\* song_retriever.main up to set_hash_cache_state: a run starts, seeds its
\* index from the tree and rewrites the cache file.
StartRun(statFail, hashFail) ==
    /\ runState # "running"
    /\ LET r == build_audio_hash_index(files, cacheFile, statFail, hashFail)
       IN /\ known_hashes' = r.hashes
          /\ cacheFile' = save_hash_cache(r.new_cache)
          /\ HASH_CACHE_STATE' = set_hash_cache_state(r.new_cache)
          /\ last' = [Report("build_audio_hash_index") EXCEPT
                         !.hashed = r.hashed, !.before = cacheFile, !.wrote = TRUE]
    /\ runState' = "running"
    /\ registered' = {}
    /\ downloaded' = <<>>
    /\ UNCHANGED <<files, covers, clock>>

\* main returns: the process and its globals are gone.
EndRun ==
    /\ runState = "running"
    /\ runState' = "none"
    /\ known_hashes' = {}
    /\ HASH_CACHE_STATE' = NoState
    /\ registered' = {}
    /\ downloaded' = <<>>
    /\ last' = Report("exit")
    /\ UNCHANGED <<files, covers, cacheFile, clock>>

\* One track of a batch: the caller's unique_base_path and download_audio.
\* A track of the songs list is stored in the base directory, under the
\* name of its artist, and the path it returns is appended to downloaded;
\* a track of an album is stored in the album's folder.
DownloadTask(d, nm, outcomes, produced, flt) ==
    /\ runState = "running"
    /\ clock < MaxClock
    /\ LET n == unique_base_path(files, d, nm, 1)
           r == download_audio(files, known_hashes, HASH_CACHE_STATE, cacheFile,
                               d, nm, n, outcomes, produced, clock, flt)
       IN /\ n <= MaxSuffix
          /\ files' = r.files
          /\ known_hashes' = r.known_hashes
          /\ HASH_CACHE_STATE' = r.state
          /\ cacheFile' = r.file
          /\ clock' = IF r.loop.ok /\ produced # {} THEN clock + 1 ELSE clock
          /\ registered' = IF r.known_hashes # known_hashes
                            THEN registered \cup r.ret ELSE registered
          /\ downloaded' = IF d = "" /\ r.ret # {}
                            THEN Append(downloaded, CHOOSE x \in r.ret : TRUE)
                            ELSE downloaded
          /\ last' = [Report("download_audio") EXCEPT
                         !.events = r.loop.events, !.seen = r.loop.seen,
                         !.ok = r.loop.ok, !.ret = r.ret, !.dup = r.dup,
                         !.wrote = r.wrote,
                         !.hash = IF r.loop.ok /\ produced # {}
                                  THEN {hash_file((CHOOSE x \in produced : TRUE)[2])}
                                  ELSE {},
                         !.target = IF r.loop.ok /\ produced # {}
                                    THEN {<<d, nm, n, (CHOOSE x \in produced : TRUE)[1]>>}
                                    ELSE {}]
    /\ UNCHANGED <<covers, runState>>

\* A catalog request made through spotify_call.
CatalogCall(outcomes) ==
    /\ runState = "running"
    /\ LET r == spotify_call(outcomes)
       IN last' = [Report("spotify_call") EXCEPT
                      !.events = r.events, !.seen = r.seen, !.ok = r.ok,
                      !.raised = r.raised,
                      !.ret = IF r.ok THEN {r.seen[Len(r.seen)]} ELSE {}]
    /\ UNCHANGED <<files, covers, cacheFile, known_hashes, HASH_CACHE_STATE, clock,
                   runState, registered, downloaded>>

\* download_album_tracks: the cover of an album folder, by download_image.
\* An exception that leaves download_image leaves main too.
FetchCover(d, url, outcomes) ==
    /\ runState = "running"
    /\ LET r == download_image(url, outcomes)
       IN /\ covers' = IF r.ok THEN covers \cup {d} ELSE covers
          /\ runState' = IF r.raised # "" THEN "crashed" ELSE runState
          /\ last' = [Report("download_image") EXCEPT
                         !.events = r.events, !.seen = r.seen, !.ok = r.ok,
                         !.raised = r.raised, !.target = {url}]
    /\ UNCHANGED <<files, cacheFile, known_hashes, HASH_CACHE_STATE, clock, registered,
                   downloaded>>

\* unique_file_path(path): the counter of the first candidate that does
\* not exist, n for path itself.  (A path that has a counter already and
\* exists would get a second one: within is FALSE then, and when the
\* counter passes MaxSuffix.)
RECURSIVE unique_file_path(_, _, _, _, _)
unique_file_path(fs, d, nm, n, ext) ==
    IF exists(fs, <<d, nm, n, ext>>) THEN unique_file_path(fs, d, nm, n + 1, ext) ELSE n

\* The loop of shutil.move over the files of one artist; moveFail are the
\* files whose move raises OSError.
RECURSIVE move_files(_, _, _, _, _)
move_files(fs, paths, i, moveFail, within) ==
    IF i > Len(paths) THEN [files |-> fs, raised |-> "", within |-> within]
    ELSE IF ~exists(fs, paths[i]) THEN move_files(fs, paths, i + 1, moveFail, within)
    ELSE LET src == paths[i]
             n == unique_file_path(fs, "Artist", src[2], src[3], src[4])
             dest == <<"Artist", src[2], n, src[4]>>
             ok == n <= MaxSuffix /\ (n # src[3] => src[3] = 1)
         IN IF src \in moveFail
            THEN [files |-> fs, raised |-> "OSError", within |-> within /\ ok]
            ELSE move_files(Put(Drop(fs, {src}), dest, fs[src]), paths, i + 1,
                            moveFail, within /\ ok)

\* group_songs_into_artist_folders(downloaded, base_output_folder), for
\* songs of one artist: with fewer than two files nothing is done.
group_songs_into_artist_folders(fs, paths, mkdirFail, moveFail) ==
    IF Len(paths) < 2 THEN [files |-> fs, raised |-> "", within |-> TRUE]
    ELSE IF mkdirFail THEN [files |-> fs, raised |-> "OSError", within |-> TRUE]
    ELSE move_files(fs, paths, 1, moveFail, TRUE)

\* The end of main in songs mode: the files of the batch are grouped and
\* main returns, or the exception of a file operation ends it.
GroupSongs(mkdirFail, moveFail) ==
    /\ runState = "running"
    /\ LET r == group_songs_into_artist_folders(files, downloaded, mkdirFail, moveFail)
       IN /\ r.within
          /\ files' = r.files
          /\ runState' = IF r.raised # "" THEN "crashed" ELSE "none"
          /\ last' = [Report("group_songs") EXCEPT
                         !.raised = r.raised, !.before = cacheFile,
                         !.target = Range(downloaded)]
    /\ known_hashes' = {}
    /\ HASH_CACHE_STATE' = NoState
    /\ registered' = {}
    /\ downloaded' = <<>>
    /\ UNCHANGED <<covers, cacheFile, clock>>

\* cleanup_empty_folders: a folder below the base directory that holds
\* nothing but a cover.jpg loses it (and is removed).
cleanup_empty_folders(fs, cv, dry_run) ==
    IF dry_run THEN cv
    ELSE {d \in cv : d = "" \/ \E p \in DOMAIN fs : p[1] = d}

\* remove_artists.main: the matched audio files are removed, empty folders
\* cleaned up, the hash cache pruned.  matched is what find_artist_match
\* selects.
RemoveArtists(matched, dry_run) ==
    /\ runState # "running"
    /\ LET fs1 == IF dry_run THEN files ELSE Drop(files, matched)
           r == prune_hash_cache(fs1, cacheFile, dry_run)
       IN /\ files' = fs1
          /\ covers' = cleanup_empty_folders(fs1, covers, dry_run)
          /\ cacheFile' = r.file
          /\ last' = [Report("remove_artists") EXCEPT
                         !.ret = {r.ret}, !.wrote = r.wrote, !.before = cacheFile,
                         !.target = matched, !.dry = dry_run]
    /\ UNCHANGED <<known_hashes, HASH_CACHE_STATE, clock, runState, registered,
                   downloaded>>

\* The library over runs of song_retriever and of remove_artists, one
\* process at a time, with file operations that succeed.
Next ==
    \/ StartRun({}, {})
    \/ EndRun
    \/ GroupSongs(FALSE, {})
    \/ \E d \in {"", "Album"}, nm \in Names, o \in FetchOutcomes, f \in Produced :
           DownloadTask(d, nm, o, f, NoFault)
    \/ \E S \in Matches(files), dry \in BOOLEAN : RemoveArtists(S, dry)

Spec == Init /\ [][Next]_vars

---------------------------------------------------------------------------
\* Properties of the library (Spec).

\* The relative paths the lines of a cache file name.
PathsNamed(f) == {l[2] : l \in Range(f.lines)}

\* C1: no two audio files stored under the base directory have the same
\* content hash, after any sequence of runs and download tasks that starts
\* from a library of pairwise different files.
C1_OneCopyPerHash ==
    \A p, q \in DOMAIN files :
        p # q => hash_file(files[p].content) # hash_file(files[q].content)

\* A task of a later run fetched, into another folder, the content of a
\* file that was in the library before the first run, and it is gone.
C1_Witness ==
    /\ last.op = "download_audio"
    /\ last.dup
    /\ \A t \in last.target : t \notin DOMAIN files
    /\ \E q \in DOMAIN files :
          /\ files[q].mtime = Seconds(0)
          /\ hash_file(files[q].content) \in last.hash
          /\ \A t \in last.target : t[1] # q[1] /\ t[4] # q[4]
    /\ Cardinality(DOMAIN files) >= 2

\* C2: a task whose file is kept has its hash in the index and its entry
\* in the cache, in memory and in the file; a task whose file has the
\* bytes of a file registered before is reported as a duplicate: it
\* returns None, its file is removed, and neither the in-memory cache nor
\* the cache file names its path.
C2_SecondIsDuplicate ==
    last.op = "download_audio" =>
        /\ (last.ret # {} =>
               \A p \in last.ret :
                  /\ last.hash \subseteq known_hashes
                  /\ p \in DOMAIN HASH_CACHE_STATE.entries
                  /\ {HASH_CACHE_STATE.entries[p][1]} = last.hash
                  /\ \E l \in Range(cacheFile.lines) : l[2] = p /\ {l[1]} = last.hash)
        /\ ((\E q \in registered : hash_file(files[q].content) \in last.hash
                                  /\ q \notin last.target) => last.dup)
        /\ (last.dup =>
               /\ last.ret = {}
               /\ last.hash \subseteq known_hashes
               /\ ~last.wrote
               /\ \A t \in last.target :
                     /\ t \notin DOMAIN files
                     /\ t \notin DOMAIN HASH_CACHE_STATE.entries
                     /\ t \notin PathsNamed(cacheFile))

\* Two tasks of one run fetched the same bytes into different folders: the
\* first is registered and on disk, the second was reported a duplicate.
C2_Witness ==
    /\ last.op = "download_audio"
    /\ last.dup
    /\ \E q \in registered :
          /\ q \in DOMAIN files
          /\ hash_file(files[q].content) \in last.hash
          /\ \A t \in last.target : t[1] # q[1]

\* C8: a curation run that is no dry run leaves in the cache file exactly
\* the lines whose path still exists, each as it was, and prune_hash_cache
\* returns the number of entries it dropped.
C8_PruneRemovesExactlyStale ==
    (last.op = "remove_artists" /\ ~last.dry) =>
        LET stale == {l \in Range(last.before.lines) : l[2] \notin DOMAIN files}
        IN /\ Range(cacheFile.lines) = Range(last.before.lines) \ stale
           /\ Len(cacheFile.lines) = Cardinality(Range(cacheFile.lines))
           /\ last.ret = {Cardinality({l[2] : l \in stale})}

\* A prune dropped one entry and kept another.
C8_Witness ==
    /\ last.op = "remove_artists"
    /\ ~last.dry
    /\ last.ret = {1}
    /\ Len(cacheFile.lines) >= 1
    /\ Len(last.before.lines) = Len(cacheFile.lines) + 1

\* C9: when every line of the cache names an existing file, or the cache
\* is empty or absent, prune_hash_cache returns 0 and opens no file for
\* writing: the cache file is what it was, an absent one still absent.
C9_CleanPruneWritesNothing ==
    (last.op = "remove_artists"
        /\ \A l \in Range(last.before.lines) : l[2] \in DOMAIN files) =>
        /\ last.ret = {0}
        /\ ~last.wrote
        /\ cacheFile = last.before

\* A prune that is no dry run found a cache of two lines, both of files
\* that exist.
C9_Witness ==
    /\ last.op = "remove_artists"
    /\ ~last.dry
    /\ Len(last.before.lines) >= 2
    /\ \A l \in Range(last.before.lines) : l[2] \in DOMAIN files

---------------------------------------------------------------------------
\* The remote call sites of one run (SpecRemote): catalog requests, cover
\* fetches and audio fetches against a remote side that fails as it likes,
\* with local file operations that succeed.

RemoteLibraries == {EmptyMap, [p \in {<<"", "song", 1, ".mp3">>} |-> Old("A")]}

InitRemote == Init /\ files \in RemoteLibraries

NextRemote ==
    \/ StartRun({}, {})
    \/ EndRun
    \/ \E o \in CallOutcomes : CatalogCall(o)
    \/ \E url \in {"", "http"}, o \in RemoteImage : FetchCover("Album", url, o)
    \/ \E d \in {"", "Album"}, nm \in Names, o \in FetchOutcomes, f \in Produced :
           DownloadTask(d, nm, o, f, NoFault)

SpecRemote == InitRemote /\ [][NextRemote]_vars

\* How often x occurs in seq.
Count(seq, x) == Cardinality({i \in 1..Len(seq) : seq[i] = x})

\* k failed attempts, each logged and followed by the delay, then one more
\* call.
RECURSIVE RetryTrace(_)
RetryTrace(k) ==
    IF k = 0 THEN <<"call">> ELSE <<"call", "log", "sleep">> \o RetryTrace(k - 1)

\* C3: spotify_call and the download loop of download_audio, when the
\* operation fails on its first k attempts (k < 3) and succeeds on attempt
\* k+1, invoke it exactly k+1 times and sleep exactly k times, once after
\* each failure and never after the success; spotify_call returns the
\* result of the successful attempt, download_audio goes on to the file.
C3_RetryThenSuccess ==
    (last.op \in {"spotify_call", "download_audio"} /\ last.ok) =>
        LET k == Count(last.seen, "Exception")
        IN /\ k < 3
           /\ Len(last.seen) = k + 1
           /\ Count(last.events, "call") = k + 1
           /\ Count(last.events, "sleep") = k
           /\ last.events = RetryTrace(k)
           /\ last.raised = ""
           /\ last.op = "spotify_call" => last.ret = {last.seen[k + 1]}
           /\ (last.seen[1] = "Exception" /\ last.seen[2] = "Exception")
                  => Count(last.events, "sleep") = 2

\* A catalog request failed twice and returned the result of its third
\* attempt.
C3_Witness ==
    /\ last.op = "spotify_call"
    /\ last.seen = <<"Exception", "Exception", "album">>
    /\ last.ret = {"album"}
    /\ Count(last.events, "sleep") = 2

\* C4: when func raises on every one of the SPOTIFY_ATTEMPTS attempts,
\* spotify_call invokes it exactly SPOTIFY_ATTEMPTS times, sleeps exactly
\* SPOTIFY_ATTEMPTS - 1 times with no sleep after the last failure,
\* returns None (no result in last.ret), and no exception reaches the
\* caller: the run goes on.
C4_AllAttemptsFail ==
    (last.op = "spotify_call" /\ ~last.ok) =>
        /\ last.seen = [i \in 1..SPOTIFY_ATTEMPTS |-> "Exception"]
        /\ Count(last.events, "call") = SPOTIFY_ATTEMPTS
        /\ Count(last.events, "log") = SPOTIFY_ATTEMPTS
        /\ Count(last.events, "sleep") = SPOTIFY_ATTEMPTS - 1
        /\ last.events[Len(last.events)] = "log"
        /\ last.ret = {}
        /\ last.raised = ""
        /\ runState = "running"

\* A catalog request used up its budget.
C4_Witness ==
    /\ last.op = "spotify_call"
    /\ ~last.ok
    /\ Len(last.seen) = SPOTIFY_ATTEMPTS
    /\ last.ret = {}

---------------------------------------------------------------------------
\* One run with file operations that fail (SpecFaults): every open, write,
\* stat, remove, makedirs and move of the run may raise OSError, and the
\* remote side fails as it likes.

NextFaults ==
    \/ \E fail \in FailSets(files) : StartRun(fail[1], fail[2])
    \/ EndRun
    \/ \E mkdirFail \in BOOLEAN, moveFail \in {{}, DOMAIN files} :
           GroupSongs(mkdirFail, moveFail)
    \/ \E o \in CallOutcomes : CatalogCall(o)
    \/ \E o \in LocalImage : FetchCover("Album", "http", o)
    \/ \E o \in FetchOutcomes, f \in Produced, flt \in OneFault :
           DownloadTask("", "song", o, f, flt)

SpecFaults == InitRemote /\ [][NextFaults]_vars

\* The attempt budget of a remote call site.
Budget(op) ==
    CASE op = "spotify_call" -> SPOTIFY_ATTEMPTS
      [] op = "download_image" -> IMAGE_DOWNLOAD_ATTEMPTS
      [] OTHER -> DOWNLOAD_ATTEMPTS

\* The outcomes of an attempt that are not failures.
Succeeded(outcome) == outcome \in {"track", "album", "200", "ok"}

\* What the retry policy does with the outcomes seen, attempt i onwards,
\* under a budget of n: a failure is logged and, while attempts remain,
\* followed by the delay.
RECURSIVE PolicyTrace(_, _, _)
PolicyTrace(seen, i, n) ==
    IF i > Len(seen) THEN <<>>
    ELSE IF Succeeded(seen[i]) THEN <<"call">>
    ELSE <<"call", "log">> \o (IF i < n THEN <<"sleep">> ELSE <<>>)
             \o PolicyTrace(seen, i + 1, n)

\* C5: at every remote call site (spotify_call, download_image,
\* download_audio) a failure of an attempt is caught and logged, followed
\* by the delay and another attempt while the budget of the site is not
\* used up; with the budget used up the call returns no result; no
\* exception leaves the call.
C5_UniformRetryPolicy ==
    (last.op \in {"spotify_call", "download_image", "download_audio"}
        /\ last.seen # <<>>) =>
        /\ last.raised = ""
        /\ last.events = PolicyTrace(last.seen, 1, Budget(last.op))
        /\ last.ok \/ Len(last.seen) = Budget(last.op)
        /\ ~last.ok => last.ret = {}

\* C6: a failure while one item is processed (a remote call out of
\* attempts, a file operation on the cover image or on an audio file that
\* raises) does not end the run: no exception leaves the operation and the
\* process is not terminated by it.
C6_ItemFailureContained ==
    /\ runState # "crashed"
    /\ last.op \in {"spotify_call", "download_image", "download_audio", "group_songs"}
           => last.raised = ""

---------------------------------------------------------------------------
\* The scan at the start of a run (SpecScan): build_audio_hash_index over
\* a tree and a cache file left by earlier runs, with entries that are
\* fresh, that differ in size or in time, that carry a hash the file does
\* not have, that do not parse, or that are missing.

ScanFirst == <<"", "song", 1, ".mp3">>

ScanSecond == <<"Album", "song", 1, ".m4a">>

ScanLibraries ==
    {[p \in {ScanFirst} |-> [content |-> c, mtime |-> Seconds(t)]] :
        c \in {"A", "C"}, t \in {1, 2}}
    \cup {[p \in {ScanFirst, ScanSecond} |->
              IF p = ScanFirst THEN [content |-> c, mtime |-> Seconds(t)]
              ELSE [content |-> "B", mtime |-> Seconds(1)]] :
          c \in {"A", "C"}, t \in {1, 2}}

ScanSizeTexts == {<<"7">>, <<"1", "2">>}

ScanTimeTexts == {<<"1", ".", "0">>, <<"2", ".", "0">>, <<"1">>, <<".">>}

\* No line for the path, or one.
ScanLines(p) ==
    {<<>>} \cup {<<(<<h, p, sz, tm>>)>> :
                    h \in {"sha-A", "sha-B"}, sz \in ScanSizeTexts, tm \in ScanTimeTexts}

ScanCaches ==
    {[exists |-> TRUE, lines |-> a \o b] : a \in ScanLines(ScanSecond), b \in ScanLines(ScanFirst)}

InitScan ==
    /\ files \in ScanLibraries
    /\ cacheFile \in ScanCaches
    /\ covers = {}
    /\ known_hashes = {}
    /\ HASH_CACHE_STATE = NoState
    /\ clock = 1
    /\ runState = "none"
    /\ registered = {}
    /\ downloaded = <<>>
    /\ last = Report("init")

NextScan == StartRun({}, {}) \/ EndRun

SpecScan == InitScan /\ [][NextScan]_vars

\* The entries the scan found in the cache file it started from.
CachedBefore == load_hash_cache(last.before)

\* An entry for p whose size and time both equal the current stat of p.
FreshBefore(p) ==
    /\ p \in DOMAIN CachedBefore
    /\ CachedBefore[p][2] = SizeOf(files[p].content)
    /\ CachedBefore[p][3] = files[p].mtime

\* C7: after build_audio_hash_index has scanned the tree, an audio file
\* was not read exactly when the cache held an entry for its relative path
\* whose size and modification time both equal its current stat, and then
\* its new entry and the index carry the cached hash; every other audio
\* file was hashed, and its new entry carries the recomputed hash; each
\* new entry carries the current size and modification time.
C7_ReuseIffFresh ==
    last.op = "build_audio_hash_index" =>
        \A p \in DOMAIN files :
            /\ (p \notin last.hashed) <=> FreshBefore(p)
            /\ p \in DOMAIN HASH_CACHE_STATE.entries
            /\ HASH_CACHE_STATE.entries[p] =
                  <<IF FreshBefore(p) THEN CachedBefore[p][1]
                    ELSE hash_file(files[p].content),
                    SizeOf(files[p].content), files[p].mtime>>
            /\ HASH_CACHE_STATE.entries[p][1] \in known_hashes

\* A scan reused the hash of a fresh entry without reading the file (the
\* cached hash is not the one the bytes have) and rehashed a file whose
\* entry had the size of the file and another time.
C7_Witness ==
    /\ last.op = "build_audio_hash_index"
    /\ ScanSecond \in DOMAIN files
    /\ FreshBefore(ScanSecond)
    /\ ScanSecond \notin last.hashed
    /\ HASH_CACHE_STATE.entries[ScanSecond][1] = "sha-A"
    /\ ScanFirst \in DOMAIN CachedBefore
    /\ CachedBefore[ScanFirst][2] = SizeOf(files[ScanFirst].content)
    /\ CachedBefore[ScanFirst][3] # files[ScanFirst].mtime
    /\ ScanFirst \in last.hashed
    /\ HASH_CACHE_STATE.entries[ScanFirst][1] = hash_file(files[ScanFirst].content)

---------------------------------------------------------------------------
\* The hash cache as text (SpecRoundTrip): load and save of both programs
\* over well-formed stores, whose size and time fields are any texts
\* int() and float() accept, and over mappings.

\* The longest size or time text of a store.
MaxTextLen == 3

TextChars == {"0", "5", "."}

Texts == UNION {[1..k -> TextChars] : k \in 1..MaxTextLen}

SizeTexts == {t \in Texts : IntOk(t)}

TimeTexts == {t \in Texts : FloatOk(t)}

\* One record, for ScanFirst, with any numeric fields; or that record and
\* one for ScanSecond, in either order.
SecondLines ==
    {<<"sha-B", ScanSecond, <<"7">>, tm>> : tm \in {<<"5", ".", "0">>, <<"5">>}}

Stores ==
    {[exists |-> TRUE, lines |-> <<>>]}
    \cup {[exists |-> TRUE, lines |-> <<(<<"sha-A", ScanFirst, sz, tm>>)>> \o rest] :
            sz \in SizeTexts, tm \in TimeTexts,
            rest \in {<<>>} \cup {<<l>> : l \in SecondLines}}
    \cup {[exists |-> TRUE, lines |-> <<l, <<"sha-A", ScanFirst, sz, tm>>>>] :
            sz \in SizeTexts, tm \in TimeTexts, l \in SecondLines}

\* The mappings of song_retriever, rel_path -> (hash, int, float): empty,
\* any entry for ScanFirst, or that and an entry for ScanSecond.
Mappings ==
    {EmptyMap}
    \cup {[p \in S |-> IF p = ScanFirst THEN <<"sha-A", IntVal(sz), FloatVal(tm)>>
                        ELSE <<"sha-B", 7, Seconds(5)>>] :
            sz \in SizeTexts, tm \in TimeTexts,
            S \in {{ScanFirst}, {ScanFirst, ScanSecond}}}

InitRoundTrip ==
    /\ \/ cacheFile \in Stores /\ HASH_CACHE_STATE = NoState
       \/ /\ cacheFile = NoFile
          /\ HASH_CACHE_STATE \in {set_hash_cache_state(M) : M \in Mappings}
    /\ files = EmptyMap
    /\ covers = {}
    /\ known_hashes = {}
    /\ clock = 1
    /\ runState = "none"
    /\ registered = {}
    /\ downloaded = <<>>
    /\ last = Report("init")

\* song_retriever: save_hash_cache of the mapping in memory.
SaveCache ==
    /\ HASH_CACHE_STATE.set
    /\ cacheFile' = save_hash_cache(HASH_CACHE_STATE.entries)
    /\ last' = [Report("save_hash_cache") EXCEPT !.before = cacheFile, !.wrote = TRUE]
    /\ UNCHANGED <<files, covers, known_hashes, HASH_CACHE_STATE, clock, runState,
                   registered, downloaded>>

\* song_retriever: load_hash_cache of the store, then save_hash_cache of
\* what it returned.
Rewrite ==
    /\ cacheFile.exists
    /\ HASH_CACHE_STATE' = set_hash_cache_state(load_hash_cache(cacheFile))
    /\ cacheFile' = save_hash_cache(load_hash_cache(cacheFile))
    /\ last' = [Report("rewrite") EXCEPT !.before = cacheFile, !.wrote = TRUE]
    /\ UNCHANGED <<files, covers, known_hashes, clock, runState, registered, downloaded>>

\* remove_artists: load_hash_cache of the store, then save_hash_cache of
\* what it returned.
RaRewrite ==
    /\ cacheFile.exists
    /\ cacheFile' = ra_save_hash_cache(ra_load_hash_cache(cacheFile))
    /\ last' = [Report("ra_rewrite") EXCEPT !.before = cacheFile, !.wrote = TRUE]
    /\ UNCHANGED <<files, covers, known_hashes, HASH_CACHE_STATE, clock, runState,
                   registered, downloaded>>

NextRoundTrip == SaveCache \/ Rewrite \/ RaRewrite

SpecRoundTrip == InitRoundTrip /\ [][NextRoundTrip]_vars

\* The lines are in the order of sorted(): ascending by relative path.
SortedByPath(f) ==
    \A i, j \in 1..Len(f.lines) : i < j => PathLess(f.lines[i][2], f.lines[j][2])

\* The same records, whatever the order of the lines.
SameRecords(f, g) ==
    Range(f.lines) = Range(g.lines) /\ Len(f.lines) = Len(g.lines)

\* A size text as str() writes an int: digits, no leading zero.
CanonicalSize(t) ==
    /\ t # <<>>
    /\ \A i \in 1..Len(t) : IsDigit(t[i])
    /\ Len(t) > 1 => t[1] # "0"

\* A time text as repr() writes a float: an integer part as above, a
\* point, and a fraction that ends in "0" only when it is "0".
CanonicalTime(t) ==
    \E d \in 2..(Len(t) - 1) :
        /\ t[d] = "."
        /\ CanonicalSize(SubSeq(t, 1, d - 1))
        /\ \A i \in (d + 1)..Len(t) : IsDigit(t[i])
        /\ Len(t) > d + 1 => t[Len(t)] # "0"

\* A store in the form save_hash_cache writes.
Canonical(f) ==
    \A l \in Range(f.lines) : CanonicalSize(l[3]) /\ CanonicalTime(l[4])

\* C10 as stated: for any well-formed store X, save(load(X)) has the
\* records of X, sorted by relative path, with either program's load and
\* save.
C10_RoundTripAnyStore ==
    last.op \in {"rewrite", "ra_rewrite"} =>
        SameRecords(cacheFile, last.before) /\ SortedByPath(cacheFile)

\* C10, amended: save(load(X)) is sorted by relative path and holds the
\* records of X for every well-formed store X with remove_artists' load
\* and save, and with song_retriever's for every X whose size and time
\* texts have the form str() and repr() write; for any well-formed X it
\* loads to the mapping X loads to; and loading what save wrote for a
\* mapping M returns M.
C10_RoundTrip ==
    /\ last.op = "ra_rewrite" =>
          SameRecords(cacheFile, last.before) /\ SortedByPath(cacheFile)
    /\ last.op = "rewrite" =>
          /\ SortedByPath(cacheFile)
          /\ Canonical(cacheFile)
          /\ Canonical(last.before) => SameRecords(cacheFile, last.before)
          /\ load_hash_cache(cacheFile) = load_hash_cache(last.before)
          /\ DOMAIN load_hash_cache(last.before) = PathsNamed(last.before)
    /\ last.op \in {"save_hash_cache", "rewrite"} =>
          /\ load_hash_cache(cacheFile) = HASH_CACHE_STATE.entries
          /\ SortedByPath(cacheFile)

\* song_retriever rewrote a store of two records that was in the written
\* form and not in sorted order: the same records came back, sorted.
C10_Witness ==
    /\ last.op = "rewrite"
    /\ Len(last.before.lines) = 2
    /\ Canonical(last.before)
    /\ ~SortedByPath(last.before)
    /\ SameRecords(cacheFile, last.before)
    /\ SortedByPath(cacheFile)

---------------------------------------------------------------------------
\* Loading stores with bad content (SpecLoad): lines with three or five
\* fields, with a size or a time that is no number, and lines whose bytes
\* are not UTF-8.

\* The most lines a store of SpecLoad has.
MaxLines == 2

\* A line whose bytes the utf-8 decoder rejects.
Undecodable == <<"\\xff">>

\* "for line in f" of a file opened with encoding="utf-8": reading a line
\* that is not UTF-8 raises UnicodeDecodeError, which is a ValueError and
\* no OSError, outside the try of int() and float().
decode_fails(f) == f.exists /\ \E i \in 1..Len(f.lines) : f.lines[i] = Undecodable

LoadLines ==
    {<<"sha-A", ScanFirst, <<"7">>, <<"5", ".", "0">>>>,
     <<"sha-B", ScanFirst, <<"1", "2">>, <<"5">>>>,
     <<"sha-A", ScanFirst, <<"7">>>>,
     <<"sha-A", ScanFirst, <<"7">>, <<"5", ".", "0">>, <<"0">>>>,
     <<"sha-A", ScanFirst, <<".">>, <<"5", ".", "0">>>>,
     <<"sha-A", ScanFirst, <<"7">>, <<".">>>>,
     <<"sha-B", ScanSecond, <<"7">>, <<"5", ".", "0">>>>,
     <<"sha-B", ScanSecond, <<"7">>, <<"5", ".", ".">>>>,
     Undecodable}

LoadStores ==
    {[exists |-> TRUE, lines |-> ls] :
        ls \in UNION {[1..k -> LoadLines] : k \in 0..MaxLines}}

InitLoad ==
    /\ cacheFile \in LoadStores
    /\ HASH_CACHE_STATE = NoState
    /\ files = EmptyMap
    /\ covers = {}
    /\ known_hashes = {}
    /\ clock = 1
    /\ runState = "none"
    /\ registered = {}
    /\ downloaded = <<>>
    /\ last = Report("init")

\* song_retriever.load_hash_cache(cache_path, base_dir) on the store.
LoadCache ==
    /\ last' = [Report("load_hash_cache") EXCEPT
                   !.before = cacheFile,
                   !.raised = IF decode_fails(cacheFile) THEN "UnicodeDecodeError" ELSE "",
                   !.ret = IF decode_fails(cacheFile) THEN {}
                           ELSE {load_hash_cache(cacheFile)}]
    /\ UNCHANGED <<files, covers, cacheFile, known_hashes, HASH_CACHE_STATE, clock,
                   runState, registered, downloaded>>

\* remove_artists.load_hash_cache(cache_path) on the store.
RaLoadCache ==
    /\ last' = [Report("ra_load_hash_cache") EXCEPT
                   !.before = cacheFile,
                   !.raised = IF decode_fails(cacheFile) THEN "UnicodeDecodeError" ELSE "",
                   !.ret = IF decode_fails(cacheFile) THEN {}
                           ELSE {ra_load_hash_cache(cacheFile)}]
    /\ UNCHANGED <<files, covers, cacheFile, known_hashes, HASH_CACHE_STATE, clock,
                   runState, registered, downloaded>>

NextLoad == LoadCache \/ RaLoadCache

SpecLoad == InitLoad /\ [][NextLoad]_vars

\* A text that is a number: digits, with at most one point for a time.
NumericSize(t) == t # <<>> /\ \A i \in 1..Len(t) : IsDigit(t[i])

NumericTime(t) ==
    /\ \E i \in 1..Len(t) : IsDigit(t[i])
    /\ \A i \in 1..Len(t) : IsDigit(t[i]) \/ t[i] = "."
    /\ \A i, j \in 1..Len(t) : (t[i] = "." /\ t[j] = ".") => i = j

\* Exactly four fields, size and time numeric.
WellFormed(l) == Len(l) = 4 /\ NumericSize(l[3]) /\ NumericTime(l[4])

\* The well-formed line of f that is the last one for its path.
LastWellFormed(f, i) ==
    /\ WellFormed(f.lines[i])
    /\ \A j \in (i + 1)..Len(f.lines) :
          WellFormed(f.lines[j]) => f.lines[j][2] # f.lines[i][2]

\* C11: load_hash_cache of either program never fails on bad content;
\* the mapping it returns has an entry for exactly the paths of the lines
\* with four fields and numeric size and time, each with the hash of the
\* last such line, and no entry from any other line.
C11_LoadSkipsMalformed ==
    last.op \in {"load_hash_cache", "ra_load_hash_cache"} =>
        /\ last.raised = ""
        /\ \E m \in last.ret :
              /\ DOMAIN m = {last.before.lines[i][2] :
                                i \in {j \in 1..Len(last.before.lines) :
                                          WellFormed(last.before.lines[j])}}
              /\ \A i \in 1..Len(last.before.lines) :
                    LastWellFormed(last.before, i) =>
                        m[last.before.lines[i][2]][1] = last.before.lines[i][1]

---------------------------------------------------------------------------
\* The paginated listings (SpecListing): get_all_albums, get_album_tracks,
\* get_playlist_tracks, search_albums_by_name, search_playlists_by_name
\* against a catalog that holds total items and fails as it likes.

\* The catalog holds up to MaxPages pages of 50 items and a part of one.
MaxPages == 3

Listings ==
    {"get_all_albums", "get_album_tracks", "get_playlist_tracks",
     "search_albums_by_name", "search_playlists_by_name"}

\* limit=50, and limit=100 for sp.playlist_items.
page_limit(fn) == IF fn = "get_playlist_tracks" THEN 100 ELSE 50

\* Item i of a catalog: its id is i and it is a track; in a flawed catalog
\* item 2 repeats the id of item 1 and item 3 is an episode without id.
catalog_item(cat, i) ==
    IF cat.flawed /\ i = 2 THEN [id |-> 1, type |-> "track"]
    ELSE IF cat.flawed /\ i = 3 THEN [id |-> 0, type |-> "episode"]
    ELSE [id |-> i, type |-> "track"]

\* The items the remote side returns for limit and offset.
page_items(cat, limit, offset) ==
    LET n == IF cat.total - offset >= limit THEN limit
             ELSE IF cat.total > offset THEN cat.total - offset ELSE 0
    IN [i \in 1..n |-> catalog_item(cat, offset + i)]

\* The loop over the items of a page: the items a listing appends to its
\* result acc.  Albums and playlists are kept once per id ("seen"), an
\* item without id is dropped; album tracks are all kept; playlist items
\* are kept when they are tracks with an id.
skip_item(fn, items, i, acc) ==
    IF fn = "get_album_tracks" THEN FALSE
    ELSE IF fn = "get_playlist_tracks"
         THEN items[i].type # "track" \/ items[i].id = 0
    ELSE \/ items[i].id = 0
         \/ \E k \in 1..Len(acc) : acc[k].id = items[i].id
         \/ \E k \in 1..(i - 1) : items[k].id = items[i].id

keep_items(fn, items, acc) ==
    LET kept == SelectSeq([i \in 1..Len(items) |-> i],
                          LAMBDA i : ~skip_item(fn, items, i, acc))
    IN acc \o [j \in 1..Len(kept) |-> items[kept[j]]]

\* A listing that forgets what it has when a page fails.
after_failed_page_discard(acc) == <<>>

\* "if not response: break", then "return albums".
after_failed_page(acc) == acc

\* The outcomes func gives to one spotify_call: fails failures, then a
\* response, or SPOTIFY_ATTEMPTS failures.
page_outcomes(fails) ==
    [i \in 1..(IF fails >= SPOTIFY_ATTEMPTS THEN SPOTIFY_ATTEMPTS ELSE fails + 1) |->
        IF i <= fails THEN "Exception" ELSE "album"]

\* The while loop of a listing from page number page on; script[page] is
\* the number of failures the remote side answers the calls of that page
\* with.  The result holds the items kept and, per page requested, the
\* offset, the events of its spotify_call, whether it got a response and
\* the number of items in it.
RECURSIVE listing_loop(_, _, _, _, _, _)
listing_loop(fn, cat, script, page, offset, r) ==
    LET call == spotify_call(page_outcomes(script[page]))
        items == page_items(cat, page_limit(fn), offset)
        asked == [offset |-> offset, events |-> call.events, ok |-> call.ok,
                  n |-> IF call.ok THEN Len(items) ELSE 0]
    IN IF ~call.ok
       THEN [items |-> after_failed_page(r.items), pages |-> Append(r.pages, asked)]
       ELSE IF items = <<>>
            THEN [items |-> r.items, pages |-> Append(r.pages, asked)]
       ELSE IF Len(items) < page_limit(fn)
            THEN [items |-> keep_items(fn, items, r.items),
                  pages |-> Append(r.pages, asked)]
       ELSE listing_loop(fn, cat, script, page + 1, offset + page_limit(fn),
                         [items |-> keep_items(fn, items, r.items),
                          pages |-> Append(r.pages, asked)])

listing(fn, cat, script) ==
    listing_loop(fn, cat, script, 1, 0, [items |-> <<>>, pages |-> <<>>])

Catalogs ==
    {[total |-> t, flawed |-> f] :
        t \in UNION {{50 * k, 50 * k + 20} : k \in 0..MaxPages}, f \in BOOLEAN}

\* No call fails, or the calls of one page fail 1, 2 or 3 times.
Scripts ==
    {[j \in 1..(MaxPages + 2) |-> 0]}
    \cup {[j \in 1..(MaxPages + 2) |-> IF j = bad THEN k ELSE 0] :
            bad \in 1..(MaxPages + 1), k \in 1..SPOTIFY_ATTEMPTS}
    \cup {[j \in 1..(MaxPages + 2) |-> IF j = bad THEN SPOTIFY_ATTEMPTS
                                         ELSE IF j < bad THEN 2 ELSE 0] :
            bad \in 2..(MaxPages + 1)}

ListingInputs ==
    {[fn |-> fn, cat |-> cat, script |-> script] :
        fn \in Listings, cat \in Catalogs, script \in Scripts}

\* A run on an empty library, after its scan, about to make one listing:
\* which one, of what catalog, with what failures.
InitListing ==
    /\ files = EmptyMap
    /\ covers = {}
    /\ cacheFile = save_hash_cache(EmptyMap)
    /\ known_hashes = {}
    /\ HASH_CACHE_STATE = set_hash_cache_state(EmptyMap)
    /\ clock = 1
    /\ runState = "running"
    /\ registered = {}
    /\ downloaded = <<>>
    /\ \E in \in ListingInputs : last = [Report("init") EXCEPT !.target = {in}]

\* The listing is made.
ListingCall ==
    /\ runState = "running"
    /\ last.op = "init"
    /\ \E in \in last.target :
          LET r == listing(in.fn, in.cat, in.script)
          IN last' = [Report(in.fn) EXCEPT
                         !.seen = r.pages, !.ret = {r.items}, !.target = {in}]
    /\ UNCHANGED <<files, covers, cacheFile, known_hashes, HASH_CACHE_STATE, clock,
                   runState, registered, downloaded>>

NextListing == ListingCall

SpecListing == InitListing /\ [][NextListing]_vars

\* The page size a listing asks for.
Limit(op) == IF op = "get_playlist_tracks" THEN 100 ELSE 50

\* The events of one page's calls after fails failures: each failure
\* logged, a delay between two attempts, none after the last of the budget.
PageTrace(fails) ==
    IF fails < SPOTIFY_ATTEMPTS THEN RetryTrace(fails)
    ELSE PolicyTrace([i \in 1..SPOTIFY_ATTEMPTS |-> "Exception"], 1, SPOTIFY_ATTEMPTS)

\* The sum of the item counts of the pages.
RECURSIVE Received(_)
Received(pages) ==
    IF pages = <<>> THEN 0 ELSE pages[Len(pages)].n + Received(SubSeq(pages, 1, Len(pages) - 1))

\* The catalog positions among the first got that a listing does not keep.
Dropped(op, cat) ==
    IF ~cat.flawed \/ op = "get_album_tracks" THEN {}
    ELSE IF op = "get_playlist_tracks" THEN {3} ELSE {2, 3}

\* C12: every paginated listing asks for its pages in order from offset
\* 0, each page through a spotify_call of its own with its own retries;
\* it asks for the next page only after a full page, stops at the first
\* page with fewer items than the page size, and when the call of a page
\* fails after its retries it stops and returns what the earlier pages
\* gave it.
C12_PagedListing ==
    last.op \in Listings =>
        \A in \in last.target : \A items \in last.ret :
            LET P == last.seen
                L == Limit(last.op)
                got == Received(P)
                kept == SelectSeq([i \in 1..got |-> i],
                                  LAMBDA i : i \notin Dropped(last.op, in.cat))
            IN /\ Len(P) >= 1
               /\ \A j \in 1..Len(P) :
                     /\ P[j].offset = (j - 1) * L
                     /\ P[j].events = PageTrace(in.script[j])
                     /\ P[j].ok <=> in.script[j] < SPOTIFY_ATTEMPTS
                     /\ P[j].ok =>
                           P[j].n = IF in.cat.total - P[j].offset >= L THEN L
                                    ELSE IF in.cat.total > P[j].offset
                                         THEN in.cat.total - P[j].offset ELSE 0
                     /\ j < Len(P) => P[j].ok /\ P[j].n = L
               /\ ~P[Len(P)].ok \/ P[Len(P)].n < L
               /\ items = [k \in 1..Len(kept) |-> catalog_item(in.cat, kept[k])]

\* get_all_albums got two full pages, the second after two failed calls,
\* and the third page failed three times: it returned the 100 albums.
C12_Witness ==
    /\ last.op = "get_all_albums"
    /\ Len(last.seen) = 3
    /\ last.seen[2].ok
    /\ Count(last.seen[2].events, "sleep") = 2
    /\ ~last.seen[3].ok
    /\ Count(last.seen[3].events, "call") = SPOTIFY_ATTEMPTS
    /\ \E items \in last.ret : Len(items) = 100

---------------------------------------------------------------------------
\* Unique paths (SpecPaths): unique_folder_path over the folders that
\* exist under a base directory, unique_base_path over the files that do.

\* The highest counter of an existing folder or file.
MaxCounter == 3

\* A probe that finds no folder.
folder_exists_never(folders, n) == FALSE

\* os.path.exists(candidate), for the folder name itself (n = 1) and for
\* "name (n)"; folders holds the n that exist.
folder_exists(folders, n) == n \in folders

\* unique_folder_path(base_dir, folder_name): 1 for base_dir/folder_name,
\* n for base_dir/"folder_name (n)".
RECURSIVE unique_folder_path(_, _)
unique_folder_path(folders, n) ==
    IF folder_exists(folders, n) THEN unique_folder_path(folders, n + 1) ELSE n

\* The files around one base name: with audio extensions and with another.
SlotFiles ==
    {<<"", "song", n, e>> : n \in 1..MaxCounter, e \in {".mp3", ".opus", ".jpg"}}

\* The folders that exist, with no files; or files, with no folders.
PathInputs ==
    {[folders |-> S, files |-> EmptyMap] : S \in SUBSET (1..MaxCounter)}
    \cup {[folders |-> {}, files |-> [p \in F |-> Old("A")]] : F \in SUBSET SlotFiles}

InitPaths ==
    /\ \E in \in PathInputs :
          /\ files = in.files
          /\ last = [Report("init") EXCEPT !.target = {in.folders}]
    /\ covers = {}
    /\ cacheFile = NoFile
    /\ known_hashes = {}
    /\ HASH_CACHE_STATE = NoState
    /\ clock = 1
    /\ runState = "none"
    /\ registered = {}
    /\ downloaded = <<>>

\* download_album_tracks asks for the folder of an album.
FolderPath ==
    /\ last.op = "init"
    /\ \E folders \in last.target :
          last' = [Report("unique_folder_path") EXCEPT
                      !.ret = {unique_folder_path(folders, 1)}, !.target = {folders}]
    /\ UNCHANGED <<files, covers, cacheFile, known_hashes, HASH_CACHE_STATE, clock,
                   runState, registered, downloaded>>

\* A batch asks for the base path of a track.
BasePath ==
    /\ last.op = "init"
    /\ last' = [Report("unique_base_path") EXCEPT
                   !.ret = {unique_base_path(files, "", "song", 1)},
                   !.hashed = find_downloaded_file(files, "", "song",
                                  unique_base_path(files, "", "song", 1))]
    /\ UNCHANGED <<files, covers, cacheFile, known_hashes, HASH_CACHE_STATE, clock,
                   runState, registered, downloaded>>

NextPaths == FolderPath \/ BasePath

SpecPaths == InitPaths /\ [][NextPaths]_vars

\* C13: unique_folder_path returns base/name when that does not exist,
\* and otherwise base/"name (n)" for the smallest n >= 2 that does not
\* exist: with name and "name (2)" present it returns "name (3)"; the
\* path it returns does not exist.
C13_UniqueFolder ==
    last.op = "unique_folder_path" =>
        \A folders \in last.target : \A n \in last.ret :
            /\ n \notin folders
            /\ 1 \notin folders => n = 1
            /\ 1 \in folders => n >= 2 /\ \A k \in 2..(n - 1) : k \in folders
            /\ ({1, 2} \subseteq folders /\ 3 \notin folders) => n = 3

\* With Album and "Album (2)" present and "Album (3)" absent the answer
\* was "Album (3)".
C13_Witness ==
    /\ last.op = "unique_folder_path"
    /\ last.target = {{1, 2}}
    /\ last.ret = {3}

\* A file with the base of counter n and one of the candidate extensions.
SlotTaken(n) ==
    \E e \in {".mp3", ".m4a", ".webm", ".opus"} : <<"", "song", n, e>> \in DOMAIN files

\* C14: unique_base_path returns the first of base, "base (2)",
\* "base (3)", ... for which no file with any of the candidate audio
\* extensions exists; a file with another extension does not take the
\* slot, and find_downloaded_file finds nothing at the base returned.
C14_OneSlotPerBase ==
    last.op = "unique_base_path" =>
        \A n \in last.ret :
            /\ ~SlotTaken(n)
            /\ \A k \in 1..(n - 1) : SlotTaken(k)
            /\ last.hashed = {}

\* song.mp3 and "song (2).opus" exist and "song (3)" exists as .jpg only:
\* the base returned is "song (3)".
C14_Witness ==
    /\ last.op = "unique_base_path"
    /\ DOMAIN files = {<<"", "song", 1, ".mp3">>, <<"", "song", 2, ".opus">>,
                       <<"", "song", 3, ".jpg">>}
    /\ last.ret = {3}

---------------------------------------------------------------------------
\* remove_artists: normalize, build_artist_index, text_matches_artist,
\* find_artist_match.  A text is the sequence of its characters.

LowerLetters == <<"a", "b", "c", "d", "e", "f", "g", "h", "i", "j", "k", "l", "m", "n", "o", "p", "q", "r", "s", "t", "u", "v", "w", "x", "y", "z">>

UpperLetters == <<"A", "B", "C", "D", "E", "F", "G", "H", "I", "J", "K", "L", "M", "N", "O", "P", "Q", "R", "S", "T", "U", "V", "W", "X", "Y", "Z">>

\* A lowering that leaves every character as it is.
lower_unchanged(ch) == ch

\* str.lower(), character by character.
lower(ch) ==
    IF \E i \in 1..26 : UpperLetters[i] = ch
    THEN LowerLetters[CHOOSE i \in 1..26 : UpperLetters[i] = ch]
    ELSE ch

\* ch.isalnum()
isalnum(ch) ==
    IsDigit(ch) \/ \E i \in 1..26 : LowerLetters[i] = ch \/ UpperLetters[i] = ch

\* ch.isspace()
isspace(ch) == ch \in {" ", "\t", "\n"}

\* A cleaning that keeps every character.
cleaned_char_kept(ch) == ch

\* The loop body of normalize: an alphanumeric character is kept, a space
\* and anything else become " ".
cleaned_char(ch) == IF isalnum(ch) THEN ch ELSE " "

\* str.split(): the runs of characters between whitespace.
RECURSIVE split(_, _, _)
split(text, word, words) ==
    IF text = <<>> THEN (IF word = <<>> THEN words ELSE Append(words, word))
    ELSE IF isspace(Head(text))
         THEN split(Tail(text), <<>>, IF word = <<>> THEN words ELSE Append(words, word))
    ELSE split(Tail(text), Append(word, Head(text)), words)

\* " ".join(words)
RECURSIVE join(_)
join(words) ==
    IF words = <<>> THEN <<>>
    ELSE IF Len(words) = 1 THEN words[1]
    ELSE words[1] \o <<" ">> \o join(Tail(words))

\* normalize(text); the argument is {} for None and {text} otherwise.
normalize(arg) ==
    IF arg = {} \/ arg = {<<>>} THEN <<>>
    ELSE LET text == CHOOSE t \in arg : TRUE
             cleaned == [i \in 1..Len(text) |-> cleaned_char(lower(text[i]))]
         IN join(split(cleaned, <<>>, <<>>))

\* norm.replace(" ", "")
remove_spaces(text) == SelectSeq(text, LAMBDA ch : ch # " ")

\* One entry of build_artist_index(artists).
artist_entry(name) ==
    [name |-> name,
     norm |-> normalize({name}),
     compact |-> remove_spaces(normalize({name})),
     tokens |-> split(normalize({name}), <<>>, <<>>)]

build_artist_index(artists) == [i \in 1..Len(artists) |-> artist_entry(artists[i])]

\* A containment test that finds nothing.
contains_never(part, text) == FALSE

\* "part in text" for strings.
contains(part, text) ==
    \E i \in 0..(Len(text) - Len(part)) : SubSeq(text, i + 1, i + Len(part)) = part

\* text_matches_artist(text, entry)
text_matches_artist(text, entry) ==
    LET text_norm == normalize({text})
        text_tokens == split(text_norm, <<>>, <<>>)
    IN IF text_norm = <<>> THEN FALSE
       ELSE IF entry.compact # <<>> /\ contains(entry.compact, remove_spaces(text_norm))
            THEN TRUE
       ELSE IF entry.tokens = <<>> THEN FALSE
       ELSE IF Len(text_tokens) < Len(entry.tokens) THEN FALSE
       ELSE \E idx \in 0..(Len(text_tokens) - Len(entry.tokens)) :
               SubSeq(text_tokens, idx + 1, idx + Len(entry.tokens)) = entry.tokens

\* A loop over the candidates from the last to the first.
candidate_order_reversed(candidates) ==
    [i \in 1..Len(candidates) |-> candidates[Len(candidates) + 1 - i]]

\* "for candidate in candidates"
candidate_order(candidates) == candidates

\* The inner loop of find_artist_match: the name of the first entry, from
\* entry number e on, that matches the candidate; {} when none does.
RECURSIVE first_entry(_, _, _)
first_entry(candidate, artist_entries, e) ==
    IF e > Len(artist_entries) THEN {}
    ELSE IF text_matches_artist(candidate, artist_entries[e])
         THEN {artist_entries[e].name}
    ELSE first_entry(candidate, artist_entries, e + 1)

RECURSIVE first_candidate(_, _, _)
first_candidate(candidates, artist_entries, c) ==
    IF c > Len(candidates) THEN {}
    ELSE IF first_entry(candidates[c], artist_entries, 1) # {}
         THEN first_entry(candidates[c], artist_entries, 1)
    ELSE first_candidate(candidates, artist_entries, c + 1)

\* find_artist_match(candidates, artist_entries); {} is None.
find_artist_match(candidates, artist_entries) ==
    first_candidate(candidate_order(candidates), artist_entries, 1)

\* The loop over extract_artist_tags(path) in main: one find_artist_match
\* per tag text, left at the first match.
RECURSIVE match_tags(_, _, _)
match_tags(tags, artist_entries, t) ==
    IF t > Len(tags) THEN {}
    ELSE IF find_artist_match(<<tags[t]>>, artist_entries) # {}
         THEN find_artist_match(<<tags[t]>>, artist_entries)
    ELSE match_tags(tags, artist_entries, t + 1)

\* main, for one audio file: the tags, then the filename and the folders
\* of the relative path.
match_file(tags, filename, folders, artist_entries) ==
    IF match_tags(tags, artist_entries, 1) # {}
    THEN match_tags(tags, artist_entries, 1)
    ELSE find_artist_match(<<filename>> \o folders, artist_entries)

---------------------------------------------------------------------------
\* The matcher on its inputs: every short text over a small alphabet, the
\* named example texts, and short lists of candidates and artists.

\* Texts are explored up to MaxInputLen characters.
MaxInputLen == 4
\* Candidate, tag, folder and artist lists are explored up to MaxCandidates.
MaxCandidates == 2

SeqsUpTo(S, n) == UNION {[1..k -> S] : k \in 0..n}

TextAlphabet == {"A", "b", "!", " "}

ShortTexts == SeqsUpTo(TextAlphabet, MaxInputLen)

ExampleText == <<"A", "b", "!", "c", " ", " ", "D", "e", "f">>

TheBeatles == <<"T", "h", "e", " ", "B", "e", "a", "t", "l", "e", "s">>

Revolution == <<"t", "h", "e", " ", "b", "e", "a", "t", "l", "e", "s", " ", "r", "e", "v", "o", "l", "u", "t", "i", "o", "n", ".", "m", "p", "3">>

WhiteAlbum == <<"b", "e", "a", "t", "l", "e", "s", " ", "t", "h", "e", " ", "w", "h", "i", "t", "e", " ", "a", "l", "b", "u", "m">>

ArtistNames == {<<"A", "b">>, <<"A", " ", "b">>, <<"b">>, <<"!">>}

CandidateTexts == {<<"A", "b">>, <<"b">>, <<"!">>}

ArtistLists == SeqsUpTo(ArtistNames, MaxCandidates)

\* The configured lists a whole file is matched against.
FileArtistLists ==
    {<<<<"A", "b">>, <<"b">>>>, <<<<"b">>, <<"A", " ", "b">>>>, <<<<"!">>>>}

TextInputs ==
    {[kind |-> "normalize", arg |-> a] :
        a \in {{}} \cup {{t} : t \in ShortTexts \cup {ExampleText, Revolution}}}
    \cup {[kind |-> "matches", text |-> t, name |-> n] :
             t \in ShortTexts, n \in ArtistNames}
    \cup {[kind |-> "matches", text |-> t, name |-> TheBeatles] :
             t \in {Revolution, WhiteAlbum}}
    \cup {[kind |-> "find", candidates |-> c, artists |-> a] :
             c \in SeqsUpTo(CandidateTexts, MaxCandidates), a \in ArtistLists}
    \cup {[kind |-> "file", tags |-> t, filename |-> f, folders |-> d, artists |-> a] :
             t \in SeqsUpTo(CandidateTexts, MaxCandidates), f \in CandidateTexts,
             d \in SeqsUpTo(CandidateTexts, MaxCandidates), a \in FileArtistLists}

InitText ==
    /\ \E in \in TextInputs : last = [Report("init") EXCEPT !.target = {in}]
    /\ files = EmptyMap
    /\ covers = {}
    /\ cacheFile = NoFile
    /\ known_hashes = {}
    /\ HASH_CACHE_STATE = NoState
    /\ clock = 1
    /\ runState = "none"
    /\ registered = {}
    /\ downloaded = <<>>

\* normalize is applied to a text.
Normalize ==
    /\ last.op = "init"
    /\ \E in \in last.target :
          /\ in.kind = "normalize"
          /\ last' = [Report("normalize") EXCEPT
                         !.ret = {normalize(in.arg)}, !.target = {in}]
    /\ UNCHANGED <<files, covers, cacheFile, known_hashes, HASH_CACHE_STATE, clock,
                   runState, registered, downloaded>>

\* text_matches_artist is applied to a text and the index entry of a name.
TextMatches ==
    /\ last.op = "init"
    /\ \E in \in last.target :
          /\ in.kind = "matches"
          /\ last' = [Report("text_matches_artist") EXCEPT
                         !.ret = {text_matches_artist(in.text, artist_entry(in.name))},
                         !.target = {in}]
    /\ UNCHANGED <<files, covers, cacheFile, known_hashes, HASH_CACHE_STATE, clock,
                   runState, registered, downloaded>>

\* find_artist_match is applied to a candidate list and the built index.
FindMatch ==
    /\ last.op = "init"
    /\ \E in \in last.target :
          /\ in.kind = "find"
          /\ last' = [Report("find_artist_match") EXCEPT
                         !.ret = find_artist_match(in.candidates,
                                                   build_artist_index(in.artists)),
                         !.target = {in}]
    /\ UNCHANGED <<files, covers, cacheFile, known_hashes, HASH_CACHE_STATE, clock,
                   runState, registered, downloaded>>

\* The curation run decides the match of one audio file.
MatchFile ==
    /\ last.op = "init"
    /\ \E in \in last.target :
          /\ in.kind = "file"
          /\ last' = [Report("match_file") EXCEPT
                         !.ret = match_file(in.tags, in.filename, in.folders,
                                            build_artist_index(in.artists)),
                         !.target = {in}]
    /\ UNCHANGED <<files, covers, cacheFile, known_hashes, HASH_CACHE_STATE, clock,
                   runState, registered, downloaded>>

NextText ==
    \/ Normalize
    \/ TextMatches
    \/ FindMatch
    \/ MatchFile

SpecText == InitText /\ [][NextText]_vars

\* part occurs in whole as a run of consecutive elements.
OccursIn(part, whole) ==
    \E i \in 1..Len(whole) :
        /\ i + Len(part) - 1 <= Len(whole)
        /\ \A k \in 1..Len(part) : whole[i + k - 1] = part[k]

\* The matching rule: the normalized text is non-empty and holds the
\* compact form (spaces removed) or the token run of the entry.
MatchRule(text, name) ==
    LET text_norm == normalize({text})
        entry == artist_entry(name)
    IN /\ text_norm # <<>>
       /\ \/ entry.compact # <<>> /\ OccursIn(entry.compact, remove_spaces(text_norm))
          \/ entry.tokens # <<>> /\ OccursIn(entry.tokens, split(text_norm, <<>>, <<>>))

\* C15: text_matches_artist is true exactly when the normalized text is
\* non-empty and either the entry's non-empty compact form is a substring of
\* the normalized text without its spaces, or the entry's non-empty tokens
\* are a contiguous in-order run of the text's tokens; for "The Beatles",
\* "the beatles revolution.mp3" matches and "beatles the white album" does
\* not.
C15_MatchRule ==
    last.op = "text_matches_artist" =>
        \A in \in last.target :
            /\ last.ret = {MatchRule(in.text, in.name)}
            /\ (in.name = TheBeatles /\ in.text = Revolution) => last.ret = {TRUE}
            /\ (in.name = TheBeatles /\ in.text = WhiteAlbum) => last.ret = {FALSE}

C15_Witness ==
    /\ last.op = "text_matches_artist"
    /\ last.target = {[kind |-> "matches", text |-> Revolution, name |-> TheBeatles]}
    /\ last.ret = {TRUE}

\* The candidate and entry numbers of the matching pairs.
MatchingPairs(candidates, artists) ==
    {p \in (1..Len(candidates)) \X (1..Len(artists)) :
        text_matches_artist(candidates[p[1]], artist_entry(artists[p[2]]))}

\* The name of the first matching pair, candidates first; {} when no pair
\* matches.
FirstPairName(candidates, artists) ==
    LET pairs == MatchingPairs(candidates, artists)
    IN IF pairs = {} THEN {}
       ELSE LET first == CHOOSE p \in pairs :
                            \A q \in pairs :
                                p[1] < q[1] \/ (p[1] = q[1] /\ p[2] <= q[2])
            IN {artists[first[2]]}

\* C16: find_artist_match returns the display name of the first matching
\* (candidate, entry) pair, candidates in the order given and for each the
\* entries in configured order, and None when nothing matches; the curation
\* run tries the tag texts, then the filename, then the folder names in
\* path order.
C16_FirstMatchWins ==
    /\ last.op = "find_artist_match" =>
          \A in \in last.target :
              last.ret = FirstPairName(in.candidates, in.artists)
    /\ last.op = "match_file" =>
          \A in \in last.target :
              last.ret = FirstPairName(in.tags \o <<in.filename>> \o in.folders,
                                       in.artists)

C16_Witness ==
    /\ last.op = "find_artist_match"
    /\ last.target = {[kind |-> "find",
                        candidates |-> <<<<"b">>, <<"A", "b">>>>,
                        artists |-> <<<<"A", "b">>, <<"b">>>>]}
    /\ last.ret = {<<"b">>}

\* A digit or a lower-case letter.
LowerAlnum(ch) == IsDigit(ch) \/ \E i \in 1..26 : LowerLetters[i] = ch

\* C17: normalize(normalize(x)) = normalize(x); the output holds only
\* lower-cased alphanumeric characters and single spaces, with no leading,
\* trailing or doubled space; empty or null input gives the empty string.
C17_NormalizeIdempotent ==
    last.op = "normalize" =>
        \A in \in last.target : \A out \in last.ret :
            /\ normalize({out}) = out
            /\ \A i \in 1..Len(out) : out[i] = " " \/ LowerAlnum(out[i])
            /\ out # <<>> => out[1] # " " /\ out[Len(out)] # " "
            /\ \A i \in 1..(Len(out) - 1) : ~(out[i] = " " /\ out[i + 1] = " ")
            /\ (in.arg = {} \/ in.arg = {<<>>}) => out = <<>>

C17_Witness ==
    /\ last.op = "normalize"
    /\ last.target = {[kind |-> "normalize", arg |-> {<<" ", "A", "!", "b">>}]}
    /\ last.ret = {<<"a", " ", "b">>}

\* C18, as stated: normalize("Ab!c  Def") returns "abc def".
C18_ExampleAsStated ==
    (last.op = "normalize" /\ last.target = {[kind |-> "normalize", arg |-> {ExampleText}]})
        => last.ret = {<<"a", "b", "c", " ", "d", "e", "f">>}

\* C18: normalize("Ab!c  Def") returns "ab c def": the "!" becomes a space
\* like any other character that is not alphanumeric.
C18_Example ==
    (last.op = "normalize" /\ last.target = {[kind |-> "normalize", arg |-> {ExampleText}]})
        => last.ret = {<<"a", "b", " ", "c", " ", "d", "e", "f">>}

C18_Witness ==
    /\ last.op = "normalize"
    /\ \E in \in last.target : in.arg = {ExampleText}

---------------------------------------------------------------------------
\* The whole curation run, remove_artists.main, on a library that holds
\* audio files, album_art.jpg images (files named "album_art") and
\* cover.jpg files (covers), with and without --dry-run.

\* The album_art.jpg of folder d.
AlbumArt(d) == <<d, "album_art", 1, ".jpg">>

\* The folder d exists: it holds a file or a cover.
is_dir(fs, cv, d) == d \in cv \/ \E p \in DOMAIN fs : p[1] = d

\* rename_album_art(base_dir, dry_run): an album_art.jpg whose folder has
\* a cover.jpg is skipped, any other becomes the cover.jpg of its folder
\* (or is only counted, in a dry run).
rename_album_art(fs, cv, dry_run) ==
    LET found == {d \in Dirs : exists(fs, AlbumArt(d))}
        skipped == {d \in found : d \in cv}
        renamed == found \ skipped
    IN [renamed |-> Cardinality(renamed), skipped |-> Cardinality(skipped),
        files |-> IF dry_run THEN fs ELSE Drop(fs, {AlbumArt(d) : d \in renamed}),
        covers |-> IF dry_run THEN cv ELSE cv \cup renamed]

\* collect_audio_files(base_dir)
collect_audio_files(fs) == {p \in DOMAIN fs : p[4] \in ExtSet}

\* The folders cleanup_empty_folders removes (or counts, in a dry run):
\* those below the base directory that hold no file but a cover.jpg.
removable_folders(fs, cv) ==
    {d \in Dirs : d # "" /\ is_dir(fs, cv, d) /\ ~\E p \in DOMAIN fs : p[1] = d}

\* main: album art, the matched audio files, the folders, the hash cache,
\* and the counts of the summary.
remove_artists_main(fs, cv, cf, matched, dry_run) ==
    LET art == rename_album_art(fs, cv, dry_run)
        fs1 == IF dry_run THEN art.files ELSE Drop(art.files, matched)
        folders == removable_folders(fs1, art.covers)
        cv1 == IF dry_run THEN art.covers ELSE art.covers \ folders
        pruned == prune_hash_cache(fs1, cf, dry_run)
    IN [files |-> fs1, covers |-> cv1, cacheFile |-> pruned.file,
        wrote |-> pruned.wrote,
        summary |-> [removed_files |-> Cardinality(matched),
                     renamed_images |-> art.renamed,
                     skipped_images |-> art.skipped,
                     removed_folders |-> Cardinality(folders),
                     removed_hashes |-> pruned.ret]]

CurateAudio == {<<"", "song", 1, ".mp3">>, <<"Album", "song", 1, ".m4a">>}

CurateLibraries ==
    {[p \in audio \cup {AlbumArt(d) : d \in art} |-> Old(IF p[1] = "" THEN "A" ELSE "B")] :
        audio \in SUBSET CurateAudio, art \in SUBSET {"", "Album"}}

\* A cache file with a line for each path of a set.
CurateCache(paths) ==
    ra_save_hash_cache([p \in paths |-> <<"sha", <<"1">>, <<"5", ".", "0">>>>])

InitCurate ==
    /\ files \in CurateLibraries
    /\ covers \in SUBSET {"", "Album"}
    /\ cacheFile \in {NoFile} \cup {CurateCache(paths) : paths \in SUBSET CurateAudio}
    /\ known_hashes = {}
    /\ HASH_CACHE_STATE = NoState
    /\ clock = 1
    /\ runState = "none"
    /\ registered = {}
    /\ downloaded = <<>>
    /\ last = Report("init")

\* One run of remove_artists; matched are the audio files that
\* find_artist_match selects.
Curate(matched, dry_run) ==
    /\ matched \subseteq collect_audio_files(files)
    /\ LET r == remove_artists_main(files, covers, cacheFile, matched, dry_run)
       IN /\ files' = r.files
          /\ covers' = r.covers
          /\ cacheFile' = r.cacheFile
          /\ last' = [Report("remove_artists") EXCEPT
                         !.ret = {r.summary}, !.wrote = r.wrote, !.before = cacheFile,
                         !.target = matched, !.dry = dry_run]
    /\ UNCHANGED <<known_hashes, HASH_CACHE_STATE, clock, runState, registered,
                   downloaded>>

NextCurate == \E matched \in SUBSET CurateAudio, dry \in BOOLEAN : Curate(matched, dry)

SpecCurate == InitCurate /\ [][NextCurate]_vars

\* A step is a dry run.
DryRunStep == last'.op = "remove_artists" /\ last'.dry

\* A dry run leaves the audio files, the album art, the covers and folders
\* and the cache file as they were.
DryRunFrame == [][DryRunStep => UNCHANGED <<files, covers, cacheFile>>]_vars

\* C19: a run with --dry-run deletes no audio file, renames no album_art
\* image, removes no cover or folder and does not rewrite the hash cache,
\* and its summary gives the counts of what the run without --dry-run
\* removes from the same library.
C19_DryRunPreview ==
    [][DryRunStep =>
          /\ UNCHANGED <<files, covers, cacheFile>>
          /\ ~last'.wrote
          /\ last'.ret = {remove_artists_main(files, covers, cacheFile,
                                              last'.target, FALSE).summary}]_vars

---------------------------------------------------------------------------
\* download_audio from the fetch to its return, statement by statement,
\* for two tasks of one run that share known_hashes, HASH_CACHE_STATE and
\* the cache file and are not kept from interleaving.  runState is the
\* position of each task, last.events the statements executed so far, and
\* last.target the content each task fetches.

Tasks == {1, 2}

\* The file the fetch of task t leaves: "song.mp3", "song (2).mp3".
TaskPath(t) == <<"", "song", t, ".mp3">>

\* An add that leaves the index as it was.
index_add_nothing(kh, file_hash) == kh

\* "known_hashes.add(file_hash)"
index_add(kh, file_hash) == kh \cup {file_hash}

\* The hash task t computed: its file is not written again after the fetch.
file_hash_of(t) == hash_file(files[TaskPath(t)].content)

InitRace ==
    /\ files = EmptyMap
    /\ covers = {}
    /\ cacheFile = NoFile
    /\ known_hashes \in {{}, {hash_file("A")}}
    /\ HASH_CACHE_STATE = [set |-> TRUE, entries |-> EmptyMap]
    /\ clock = 1
    /\ runState = [t \in Tasks |-> "download"]
    /\ registered = {}
    /\ downloaded = <<>>
    /\ \E content \in [Tasks -> FetchContents] :
          last = [Report("download_audio") EXCEPT !.target = {content}]

\* Task t executes the statement at its position and moves to the next.
TaskStep(t, from, to) ==
    /\ runState[t] = from
    /\ runState' = [runState EXCEPT ![t] = to]
    /\ last' = [last EXCEPT !.events = Append(@, <<t, from>>)]

\* ydl.download: the fetch leaves the file.
RaceDownload(t) ==
    /\ TaskStep(t, "download", "hash")
    /\ \E content \in last.target :
          files' = Put(files, TaskPath(t), [content |-> content[t], mtime |-> Seconds(clock)])
    /\ UNCHANGED <<covers, cacheFile, known_hashes, HASH_CACHE_STATE, clock, registered,
                   downloaded>>

\* find_downloaded_file and "file_hash = hash_file(downloaded)"
RaceHash(t) ==
    /\ TaskStep(t, "hash", "check")
    /\ find_downloaded_file(files, "", "song", t) = {TaskPath(t)}
    /\ UNCHANGED <<files, covers, cacheFile, known_hashes, HASH_CACHE_STATE, clock,
                   registered, downloaded>>

\* "if file_hash in known_hashes"
RaceCheck(t) ==
    /\ TaskStep(t, "check",
                IF is_duplicate(file_hash_of(t), known_hashes) THEN "remove" ELSE "add")
    /\ UNCHANGED <<files, covers, cacheFile, known_hashes, HASH_CACHE_STATE, clock,
                   registered, downloaded>>

\* "os.remove(downloaded)" and "return None"
RaceRemove(t) ==
    /\ TaskStep(t, "remove", "done")
    /\ files' = Drop(files, {TaskPath(t)})
    /\ UNCHANGED <<covers, cacheFile, known_hashes, HASH_CACHE_STATE, clock, registered,
                   downloaded>>

\* "known_hashes.add(file_hash)"
RaceAdd(t) ==
    /\ TaskStep(t, "add", "update")
    /\ known_hashes' = index_add(known_hashes, file_hash_of(t))
    /\ registered' = registered \cup {TaskPath(t)}
    /\ UNCHANGED <<files, covers, cacheFile, HASH_CACHE_STATE, clock, downloaded>>

\* "update_hash_cache(downloaded, file_hash)" and "return downloaded"
RaceUpdate(t) ==
    /\ TaskStep(t, "update", "done")
    /\ LET u == update_hash_cache(HASH_CACHE_STATE, cacheFile, files, TaskPath(t),
                                  file_hash_of(t), NoFault)
       IN /\ HASH_CACHE_STATE' = u.state
          /\ cacheFile' = u.file
    /\ downloaded' = Append(downloaded, TaskPath(t))
    /\ UNCHANGED <<files, covers, known_hashes, clock, registered>>

NextRace ==
    \E t \in Tasks :
        \/ RaceDownload(t)
        \/ RaceHash(t)
        \/ RaceCheck(t)
        \/ RaceRemove(t)
        \/ RaceAdd(t)
        \/ RaceUpdate(t)

SpecRace == InitRace /\ [][NextRace]_vars

\* Both tasks have returned and both files, of the same content, are kept.
BothKept ==
    /\ \A t \in Tasks : runState[t] = "done" /\ exists(files, TaskPath(t))
    /\ files[TaskPath(1)].content = files[TaskPath(2)].content

\* Task t executed statement stmt as step number i.
StepAt(i, t, stmt) == i \in 1..Len(last.events) /\ last.events[i] = <<t, stmt>>

\* Each task made its membership check before the other added the hash.
ChecksBeforeAdds ==
    \E c1, a1, c2, a2 \in 1..Len(last.events) :
        /\ StepAt(c1, 1, "check") /\ StepAt(a1, 1, "add")
        /\ StepAt(c2, 2, "check") /\ StepAt(a2, 2, "add")
        /\ c1 < a2
        /\ c2 < a1

\* One task executed all its statements before the other executed any.
OneTaskAtATime ==
    \E t \in Tasks :
        \A i, j \in 1..Len(last.events) :
            (last.events[i][1] = t /\ last.events[j][1] # t) => i < j

\* C20: the membership check and the insert of download_audio are separate
\* steps: two tasks that fetched identical content both keep their file
\* only when each checked before the other added, which happens in some
\* interleaving and never when the tasks run one at a time.
C20_CheckThenAct ==
    /\ BothKept => ChecksBeforeAdds
    /\ OneTaskAtATime => ~BothKept

C20_Witness ==
    /\ BothKept
    /\ ChecksBeforeAdds
    /\ known_hashes = {file_hash_of(1)}
    /\ Len(cacheFile.lines) = 2
    /\ \A t \in Tasks : \E i \in 1..2 : cacheFile.lines[i][2] = TaskPath(t)

---------------------------------------------------------------------------
\* The persisted cache during a run (Spec).

\* No two lines of the file name the same relative path.
KeysUnique(f) ==
    \A i, j \in 1..Len(f.lines) : f.lines[i][2] = f.lines[j][2] => i = j

\* C21: at every point of a run, after the seeding rewrite and after any
\* number of appends by update_hash_cache, the cache file holds at most one
\* record per relative path, the files being changed by the run only.
C21_KeysUnique == runState = "running" => KeysUnique(cacheFile)

\* A task appended its record to a file that the seeding rewrite had left
\* with the record of another file.
C21_Witness ==
    /\ runState = "running"
    /\ last.op = "download_audio"
    /\ last.wrote
    /\ \E l \in Range(cacheFile.lines) : l[2] \in last.ret
    /\ \E l \in Range(cacheFile.lines) : l[2] \notin registered

---------------------------------------------------------------------------
\* The appended store against the in-memory cache: runs of song_retriever
\* alone, with update_hash_cache also called for any file of the tree and
\* any hash, as often as the bound allows.

\* update_hash_cache is explored while the file has fewer than MaxRecords
\* lines.
MaxRecords == 2

\* update_hash_cache(file_path, file_hash) for a file of the tree.
UpdateCache(p, file_hash) ==
    /\ runState = "running"
    /\ exists(files, p)
    /\ Len(cacheFile.lines) < MaxRecords
    /\ LET u == update_hash_cache(HASH_CACHE_STATE, cacheFile, files, p, file_hash, NoFault)
       IN /\ HASH_CACHE_STATE' = u.state
          /\ cacheFile' = u.file
          /\ last' = [Report("update_hash_cache") EXCEPT
                         !.before = cacheFile, !.wrote = TRUE, !.target = {p},
                         !.hash = {file_hash}]
    /\ UNCHANGED <<files, covers, known_hashes, clock, runState, registered, downloaded>>

NextAppend ==
    \/ StartRun({}, {})
    \/ EndRun
    \/ GroupSongs(FALSE, {})
    \/ \E nm \in Names, o \in FetchOutcomes, f \in Produced :
           DownloadTask("", nm, o, f, NoFault)
    \/ \E p \in Paths, h \in {"sha-A", "sha-B"} : UpdateCache(p, h)

SpecAppend == Init /\ [][NextAppend]_vars

\* While a run is in progress, loading the file gives the in-memory
\* entries.
StoreAgrees == runState = "running" => load_hash_cache(cacheFile) = HASH_CACHE_STATE.entries

\* The full rewrite of a run found the file that an earlier run left.
Rewritten == last.op = "build_audio_hash_index" /\ last.before.exists

\* The audio files are the files the mapping names, each with the size
\* and modification time of its record.
TreeAsRecorded(cache) ==
    /\ audio_files(files) = DOMAIN cache
    /\ \A p \in DOMAIN cache :
          cache[p][2] = stat(files, p).st_size /\ cache[p][3] = stat(files, p).st_mtime

\* C22, as stated: loading the appended store gives the in-memory entries,
\* the last record of a path winning, and the next full rewrite writes
\* that same mapping.
C22_NextRewriteSame ==
    /\ StoreAgrees
    /\ Rewritten => load_hash_cache(cacheFile) = load_hash_cache(last.before)

\* C22: loading the appended store gives the in-memory entries, the last
\* record of a path winning, and the next full rewrite writes that same
\* mapping when the audio files are then the files the mapping names, with
\* the recorded size and modification time.
C22_StoreAgrees ==
    /\ StoreAgrees
    /\ (Rewritten /\ TreeAsRecorded(load_hash_cache(last.before)))
          => load_hash_cache(cacheFile) = load_hash_cache(last.before)

\* The file holds two records of one path with different hashes, and the
\* in-memory entry is the later one.
C22_Witness ==
    /\ runState = "running"
    /\ last.op = "update_hash_cache"
    /\ \E i, j \in 1..Len(cacheFile.lines) :
          /\ i < j
          /\ j = Len(cacheFile.lines)
          /\ cacheFile.lines[i][2] = cacheFile.lines[j][2]
          /\ cacheFile.lines[i][1] # cacheFile.lines[j][1]
          /\ HASH_CACHE_STATE.entries[cacheFile.lines[j][2]][1] = cacheFile.lines[j][1]

---------------------------------------------------------------------------
\* The seeding scan on trees that hold the cache file and a cover image
\* beside the audio files, with files that os.stat or hash_file refuse.

\* os.path.join(base_dir, HASH_CACHE_FILENAME), as a file of the walk.
HashCachePath == <<"", ".audio_hashes", 1, ".txt">>

CoverPath == <<"Album", "cover", 1, ".jpg">>

SeedLibraries ==
    {[p \in DOMAIN lib \cup {HashCachePath, CoverPath} |->
         IF p \in DOMAIN lib THEN lib[p] ELSE [content |-> "C", mtime |-> Seconds(1)]] :
        lib \in ScanLibraries}

InitSeed ==
    /\ files \in SeedLibraries
    /\ cacheFile \in ScanCaches
    /\ covers = {"Album"}
    /\ known_hashes = {}
    /\ HASH_CACHE_STATE = NoState
    /\ clock = 1
    /\ runState = "none"
    /\ registered = {}
    /\ downloaded = <<>>
    /\ last = Report("init")

\* main up to set_hash_cache_state, as StartRun; last.target keeps the
\* files that os.stat and hash_file refused.
Seed(statFail, hashFail) ==
    /\ runState # "running"
    /\ LET r == build_audio_hash_index(files, cacheFile, statFail, hashFail)
       IN /\ known_hashes' = r.hashes
          /\ cacheFile' = save_hash_cache(r.new_cache)
          /\ HASH_CACHE_STATE' = set_hash_cache_state(r.new_cache)
          /\ last' = [Report("build_audio_hash_index") EXCEPT
                         !.hashed = r.hashed, !.before = cacheFile, !.wrote = TRUE,
                         !.target = {<<statFail, hashFail>>}]
    /\ runState' = "running"
    /\ registered' = {}
    /\ downloaded' = <<>>
    /\ UNCHANGED <<files, covers, clock>>

NextSeed ==
    \/ \E statFail, hashFail \in SUBSET {ScanFirst, ScanSecond} : Seed(statFail, hashFail)
    \/ EndRun

SpecSeed == InitSeed /\ [][NextSeed]_vars

\* The files of the tree whose name ends with an audio extension.
AudioPresent == {p \in DOMAIN files : p[4] \in {".mp3", ".m4a", ".webm", ".opus"}}

\* C23: immediately after build_audio_hash_index the rewritten cache holds
\* exactly one entry for each audio file present that could be stat-ed and
\* hashed, no entry for a path whose file does not exist, no entry for the
\* cache file itself, and the returned index is the set of the hashes of
\* its entries.
C23_SeededCache ==
    last.op = "build_audio_hash_index" =>
        \A fails \in last.target :
            /\ \A p \in AudioPresent \ (fails[1] \cup fails[2]) :
                  Cardinality({i \in 1..Len(cacheFile.lines) : cacheFile.lines[i][2] = p}) = 1
            /\ PathsNamed(cacheFile) \subseteq DOMAIN files
            /\ HashCachePath \notin PathsNamed(cacheFile)
            /\ known_hashes = {l[1] : l \in Range(cacheFile.lines)}
            /\ load_hash_cache(cacheFile) = HASH_CACHE_STATE.entries

\* The scan found records of two paths, one of a file that is gone; it
\* left the record of the file that is there, and the index holds its hash.
C23_Witness ==
    /\ last.op = "build_audio_hash_index"
    /\ last.target = {<<{}, {}>>}
    /\ HashCachePath \in DOMAIN files
    /\ ScanSecond \notin DOMAIN files
    /\ ScanSecond \in PathsNamed(last.before)
    /\ ScanFirst \in PathsNamed(last.before)
    /\ PathsNamed(cacheFile) = {ScanFirst}
    /\ known_hashes = {hash_file(files[ScanFirst].content)}

====
